---- MODULE Spec2Model ----
(***************************************************************************)
(* Slicing core of Helixer (helixerprep/core/handlers.py):                 *)
(* FeatureVsCoords, TranscriptTrimmer, SuperLocusHandler.modify4slice.     *)
(* A super locus holds transcripts; a transcript holds ordered pieces;     *)
(* features are attached to pieces.  modify4slice trims every transcript   *)
(* of the super locus to one slice, on one strand.                         *)
(***************************************************************************)
EXTENDS Integers, Sequences, FiniteSets, TLC

VARIABLES
    features,        \* Seq of feature rows; the index is the feature id
    pieces,          \* Seq of piece rows; the index is the piece id
    core_queue,      \* [coord_swaps, piece_swaps]: the batch queue
    trees,           \* the interval index: a set of entries
    transcripts,     \* number of transcripts of the super locus (ids 1..n)
    pc,              \* position of control
    new_coords,      \* modify4slice argument: id of the slice coordinates
    is_plus_strand,  \* modify4slice argument: the strand flag
    transcribed,     \* modify4slice loop variable: current transcript id
    trimmer,         \* the TranscriptTrimmer of the current transcript
    calls,           \* number of modify4slice calls started so far
    hist,            \* history of the current / last modify4new_slice call
    last_call,       \* history: the arguments of the last modify4slice call that returned
    trees_is_none    \* modify4slice argument: TRUE when trees was left at None

vars == <<features, pieces, core_queue, trees, transcripts, pc, new_coords,
          is_plus_strand, transcribed, trimmer, calls, hist, last_call,
          trees_is_none>>

----------------------------------------------------------------------------
(* Bounds of the model *)

\* positions 0..GridMax are used by the enumerated transcripts and slices
GridMax == 3
\* features of an enumerated transcript
MaxInitFeatures == 2
\* modify4slice calls in one behaviour
MaxCalls == 2

None == 0

----------------------------------------------------------------------------
(* Coordinates *)

Coordinate(id, seqid, start, end) ==
    [id |-> id, seqid |-> seqid, start |-> start, end |-> end]

\* the full sequence every feature starts on
OriginalCoords == Coordinate(1, 1, 0, 1000)

GridPos == 0..GridMax

\* the slices of the three worked scenarios: [0,400), [0,50), [50,150)
ScenarioSlices ==
    { Coordinate(2, 1, 0, 400), Coordinate(3, 1, 0, 50), Coordinate(4, 1, 50, 150) }

\* a slice of another sequence
OtherSeqSlices == { Coordinate(5, 2, 0, GridMax) }

\* the slices [s, e) of the grid
GridSlices ==
    { Coordinate(10 + x[1] * (GridMax + 1) + x[2], 1, x[1], x[2]) :
        x \in { y \in GridPos \X GridPos : y[1] < y[2] } }

Slices == GridSlices \cup ScenarioSlices \cup OtherSeqSlices

AllCoords == {OriginalCoords} \cup Slices

Coord(id) == CHOOSE c \in AllCoords : c.id = id

----------------------------------------------------------------------------
(* FeatureVsCoords: f is a feature row, c a coordinate record *)

\* faulty variant: the minus-strand swap of start and end is forgotten
feature_py_start_unswapped(f, plus) == f.start

feature_py_start(f, plus) == IF plus THEN f.start ELSE f.end + 1

feature_py_end(f, plus) == IF plus THEN f.end ELSE f.start + 1

is_detached(f, c, plus) ==
    IF c.seqid # Coord(f.coordinate).seqid THEN TRUE
    ELSE IF plus # f.is_plus_strand THEN TRUE
    ELSE FALSE

\* faulty variant: a feature that ends where the slice begins is not lower
_is_lower_strict(f, c, plus) == c.start - feature_py_end(f, plus) > 0

_is_lower(f, c, plus) == c.start - feature_py_end(f, plus) >= 0

\* faulty variant: a feature that begins where the slice ends is not higher
_is_higher_strict(f, c, plus) == feature_py_start(f, plus) - c.end > 0

_is_higher(f, c, plus) == feature_py_start(f, plus) - c.end >= 0

\* faulty variant: a feature that touches the slice from upstream is not upstream
is_upstream_strict(f, c, plus) ==
    IF plus THEN c.start - feature_py_end(f, plus) > 0
    ELSE feature_py_start(f, plus) - c.end > 0

is_upstream(f, c, plus) ==
    IF plus THEN _is_lower(f, c, plus) ELSE _is_higher(f, c, plus)

is_downstream(f, c, plus) ==
    IF plus THEN _is_higher(f, c, plus) ELSE _is_lower(f, c, plus)

\* faulty variant: a feature that ends where the slice ends is not contained
is_contained_strict(f, c, plus) ==
    /\ c.start <= feature_py_start(f, plus)
    /\ feature_py_end(f, plus) < c.end

is_contained(f, c, plus) ==
    LET start_contained == c.start <= feature_py_start(f, plus)
                           /\ feature_py_start(f, plus) < c.end
        end_contained == c.start < feature_py_end(f, plus)
                         /\ feature_py_end(f, plus) <= c.end
    IN start_contained /\ end_contained

_overlaps_lower(f, c, plus) ==
    feature_py_start(f, plus) < c.start /\ c.start < feature_py_end(f, plus)

_overlaps_higher(f, c, plus) ==
    feature_py_start(f, plus) < c.end /\ c.end < feature_py_end(f, plus)

overlaps_upstream(f, c, plus) ==
    IF plus THEN _overlaps_lower(f, c, plus) ELSE _overlaps_higher(f, c, plus)

overlaps_downstream(f, c, plus) ==
    IF plus THEN _overlaps_higher(f, c, plus) ELSE _overlaps_lower(f, c, plus)

\* faulty variant: is_detached is not asked
Branch_no_detached(f, c, plus) ==
    IF is_upstream(f, c, plus) THEN "upstream"
    ELSE IF overlaps_upstream(f, c, plus) THEN "overlaps_upstream"
    ELSE IF is_contained(f, c, plus) THEN "contained"
    ELSE IF overlaps_downstream(f, c, plus) THEN "overlaps_downstream"
    ELSE IF is_downstream(f, c, plus) THEN "downstream"
    ELSE "unreachable"

\* the branch of the if/elif chain of modify4new_slice that a group takes
Branch(f, c, plus) ==
    IF is_detached(f, c, plus) THEN "detached"
    ELSE IF is_upstream(f, c, plus) THEN "upstream"
    ELSE IF overlaps_upstream(f, c, plus) THEN "overlaps_upstream"
    ELSE IF is_contained(f, c, plus) THEN "contained"
    ELSE IF overlaps_downstream(f, c, plus) THEN "overlaps_downstream"
    ELSE IF is_downstream(f, c, plus) THEN "downstream"
    ELSE "unreachable"

----------------------------------------------------------------------------
(* Rows *)

Feature(start, end, plus, coordinate, tpieces) ==
    [start |-> start, end |-> end, is_plus_strand |-> plus,
     coordinate |-> coordinate, transcribed_pieces |-> tpieces,
     start_is_biological_start |-> TRUE, end_is_biological_end |-> TRUE]

TranscribedPiece(t, position) == [transcribed |-> t, position |-> position]

Range(s) == { s[i] : i \in DOMAIN s }

\* piece.features: the features attached to piece p
PieceFeatures(fs, p) == { f \in DOMAIN fs : p \in Range(fs[f].transcribed_pieces) }

\* transcript.transcribed_pieces
TranscribedPieces(ps, t) == { p \in DOMAIN ps : ps[p].transcribed = t }

----------------------------------------------------------------------------
(* FeatureHandler.load_to_intervaltree *)

\* faulty variant: the minus-strand bounds are swapped but not moved up by one
TreeEntry_unadjusted(fs, f) ==
    LET d == fs[f]
    IN [seqid |-> Coord(d.coordinate).seqid,
        begin |-> IF d.is_plus_strand THEN d.start ELSE d.end,
        end |-> IF d.is_plus_strand THEN d.end ELSE d.start,
        feature |-> f]

TreeEntry(fs, f) ==
    LET d == fs[f]
        py_start == IF d.is_plus_strand THEN d.start ELSE d.end + 1
        py_end == IF d.is_plus_strand THEN d.end ELSE d.start + 1
    IN [seqid |-> Coord(d.coordinate).seqid, begin |-> py_start, end |-> py_end,
        feature |-> f]

\* the interval tree refuses a null interval with a ValueError
TreeAccepts(e) == e.begin < e.end

\* faulty variant: a null interval is indexed without complaint
load_to_intervaltree_silent(tr, fs, f) ==
    [trees |-> tr \cup {TreeEntry(fs, f)}, error |-> "none"]

load_to_intervaltree(tr, fs, f) ==
    IF TreeAccepts(TreeEntry(fs, f))
    THEN [trees |-> tr \cup {TreeEntry(fs, f)}, error |-> "none"]
    ELSE [trees |-> tr, error |-> "ValueError"]

\* piece.features: the features attached to piece p, in id order
piece_features(fs, p) ==
    SelectSeq([f \in 1..Len(fs) |-> f], LAMBDA f : p \in Range(fs[f].transcribed_pieces))

\* the features of the pieces of transcript t from piece p on, the pieces in
\* the order of transcript.transcribed_pieces (by id)
RECURSIVE transcript_features(_, _, _, _)
transcript_features(fs, ps, t, p) ==
    IF p > Len(ps) THEN <<>>
    ELSE (IF ps[p].transcribed = t THEN piece_features(fs, p) ELSE <<>>)
         \o transcript_features(fs, ps, t, p + 1)

\* the transcripts of the super locus (self.data.transcribeds)
Transcribeds(ps) == { ps[p].transcribed : p \in DOMAIN ps }

\* SuperLocusHandler.features from transcript t on: transcript by transcript,
\* piece by piece; a feature attached to several pieces is yielded once for
\* each of them
RECURSIVE super_locus_features(_, _, _)
super_locus_features(fs, ps, t) ==
    IF \A u \in Transcribeds(ps) : u < t THEN <<>>
    ELSE transcript_features(fs, ps, t, 1) \o super_locus_features(fs, ps, t + 1)

\* the loop of SuperLocusHandler.load_to_intervaltree from todo[k] on: the
\* ValueError of a feature ends it, with the features before it loaded
RECURSIVE load_features(_, _, _, _)
load_features(tr, fs, todo, k) ==
    IF k > Len(todo) THEN [trees |-> tr, error |-> "none"]
    ELSE LET r == load_to_intervaltree(tr, fs, todo[k])
         IN IF r.error # "none" THEN r ELSE load_features(r.trees, fs, todo, k + 1)

----------------------------------------------------------------------------
(* The feature walk: pieces by position, the features of a piece 5' to 3',
   features with identical coordinates grouped *)

\* 5'-to-3' order of two features of a piece (ties broken by id)
pos_cmp_key(fs, f) ==
    IF fs[f].is_plus_strand THEN <<fs[f].start, fs[f].end, f>>
    ELSE <<0 - fs[f].start, 0 - fs[f].end, f>>

KeyLess(a, b) ==
    \/ a[1] < b[1]
    \/ a[1] = b[1] /\ a[2] < b[2]
    \/ a[1] = b[1] /\ a[2] = b[2] /\ a[3] <= b[3]

RECURSIVE sorted_features(_, _)
sorted_features(fs, S) ==
    IF S = {} THEN <<>>
    ELSE LET m == CHOOSE x \in S :
                    \A y \in S : KeyLess(pos_cmp_key(fs, x), pos_cmp_key(fs, y))
         IN <<m>> \o sorted_features(fs, S \ {m})

RECURSIVE sort_pieces(_, _)
sort_pieces(ps, S) ==
    IF S = {} THEN <<>>
    ELSE LET m == CHOOSE x \in S :
                    \A y \in S : KeyLess(<<ps[x].position, x, 0>>, <<ps[y].position, y, 0>>)
         IN <<m>> \o sort_pieces(ps, S \ {m})

aligned(fs, f, g) ==
    /\ fs[f].start = fs[g].start
    /\ fs[f].end = fs[g].end
    /\ fs[f].is_plus_strand = fs[g].is_plus_strand

\* groups of a sorted feature list, each paired with the piece
RECURSIVE stack_matches(_, _, _)
stack_matches(fs, sorted, piece) ==
    IF sorted = <<>> THEN <<>>
    ELSE LET n == CHOOSE k \in 1..Len(sorted) :
                    /\ \A j \in 1..k : aligned(fs, sorted[1], sorted[j])
                    /\ (k < Len(sorted) => ~aligned(fs, sorted[1], sorted[k + 1]))
         IN <<[features |-> SubSeq(sorted, 1, n), piece |-> piece]>>
            \o stack_matches(fs, SubSeq(sorted, n + 1, Len(sorted)), piece)

RECURSIVE walk_pieces(_, _)
walk_pieces(fs, sortedPieces) ==
    IF sortedPieces = <<>> THEN <<>>
    ELSE stack_matches(fs, sorted_features(fs, PieceFeatures(fs, Head(sortedPieces))),
                       Head(sortedPieces))
         \o walk_pieces(fs, Tail(sortedPieces))

transition_5p_to_3p(fs, ps, t) ==
    walk_pieces(fs, sort_pieces(ps, TranscribedPieces(ps, t)))

----------------------------------------------------------------------------
(* The batch queue *)

EmptyQueue == [coord_swaps |-> <<>>, piece_swaps |-> <<>>]

RECURSIVE apply_coord_swaps(_, _)
apply_coord_swaps(fs, swaps) ==
    IF swaps = <<>> THEN fs
    ELSE LET s == Head(swaps)
         IN apply_coord_swaps(
                [fs EXCEPT ![s.feat_id].coordinate = s.coordinate_id_new], Tail(swaps))

RECURSIVE apply_piece_swaps(_, _)
apply_piece_swaps(fs, swaps) ==
    IF swaps = <<>> THEN fs
    ELSE LET s == Head(swaps)
             old == fs[s.feat_id].transcribed_pieces
             new == [i \in DOMAIN old |->
                        IF old[i] = s.piece_id_old THEN s.piece_id_new ELSE old[i]]
         IN apply_piece_swaps(
                [fs EXCEPT ![s.feat_id].transcribed_pieces = new], Tail(swaps))

\* faulty variant: the records are applied and stay in the queue
execute_so_far_keeps(fs, q) ==
    [features |-> apply_piece_swaps(apply_coord_swaps(fs, q.coord_swaps), q.piece_swaps),
     core_queue |-> q]

\* execute_so_far: every queued record is applied, the queue is cleared
execute_so_far(fs, q) ==
    [features |-> apply_piece_swaps(apply_coord_swaps(fs, q.coord_swaps), q.piece_swaps),
     core_queue |-> EmptyQueue]

----------------------------------------------------------------------------
(* TranscriptTrimmer *)

\* trees is the dict modify4new_slice makes when it is called with trees=None
NewTrimmer(t) ==
    [transcript |-> t, _downstream_piece |-> None, walk |-> <<>>, i |-> 1,
     seen_one_overlap |-> FALSE, piece_at_border |-> None, trees |-> {}]

\* faulty variant: the higher pieces are not moved up
mk_new_piece_no_shift(ps, t, piece) ==
    [pieces |-> Append(ps, TranscribedPiece(t, ps[piece].position + 1)),
     new_piece |-> Len(ps) + 1]

\* faulty variant: the given piece is moved up as well
mk_new_piece_shift_given(ps, t, piece) ==
    LET moved == [p \in DOMAIN ps |->
                    IF ps[p].transcribed = t /\ ps[p].position >= ps[piece].position
                    THEN [ps[p] EXCEPT !.position = @ + 1]
                    ELSE ps[p]]
    IN [pieces |-> Append(moved, TranscribedPiece(t, ps[piece].position + 1)),
        new_piece |-> Len(ps) + 1]

mk_new_piece(ps, t, piece) ==
    LET moved == [p \in DOMAIN ps |->
                    IF ps[p].transcribed = t /\ ps[p].position > ps[piece].position
                    THEN [ps[p] EXCEPT !.position = @ + 1]
                    ELSE ps[p]]
    IN [pieces |-> Append(moved, TranscribedPiece(t, ps[piece].position + 1)),
        new_piece |-> Len(ps) + 1]

\* faulty variant: the piece is not memoized
downstream_piece_fresh(ps, tr, piece) == mk_new_piece(ps, tr.transcript, piece)

downstream_piece(ps, tr, piece) ==
    IF tr._downstream_piece = None
    THEN mk_new_piece(ps, tr.transcript, piece)
    ELSE [pieces |-> ps, new_piece |-> tr._downstream_piece]

\* faulty variant: the replacement is added and the old item stays
swap_list_item_add(template_list, replacement_item, item_to_remove) ==
    Append(template_list, replacement_item)

swap_list_item(template_list, replacement_item, item_to_remove) ==
    LET i == CHOOSE k \in DOMAIN template_list :
                /\ template_list[k] = item_to_remove
                /\ \A j \in 1..(k - 1) : template_list[j] # item_to_remove
    IN [template_list EXCEPT ![i] = replacement_item]

\* faulty variant: the minus-strand cut is not moved below the slice
down_at_no_shift(c, plus) == IF plus THEN c.end ELSE c.start

\* faulty variant: the cut is made where the slice begins
down_at_slice_start(c, plus) == c.start

down_at(c, plus) == IF plus THEN c.end ELSE c.start - 1

\* faulty variant: the template is truncated before the assertion is made
set_status_downstream_border_late_assert(st, c, old_coords, plus, template_feature, new_piece, old_piece) ==
    LET fs == st.features
        tf == fs[template_feature]
        truncated == [fs EXCEPT ![template_feature].end = down_at(c, plus),
                                ![template_feature].end_is_biological_end = FALSE,
                                ![template_feature].coordinate = c.id]
    IN IF old_piece \notin Range(tf.transcribed_pieces)
       THEN [features |-> truncated, trees |-> st.trees, error |-> "AssertionError"]
       ELSE LET downstream ==
                    [tf EXCEPT !.start = down_at(c, plus),
                               !.coordinate = old_coords,
                               !.start_is_biological_start = FALSE,
                               !.transcribed_pieces =
                                    swap_list_item(tf.transcribed_pieces, new_piece,
                                                   old_piece)]
                loaded == load_to_intervaltree(st.trees, Append(fs, downstream),
                                               Len(fs) + 1)
            IN IF loaded.error # "none"
               THEN [features |-> Append(truncated, downstream), trees |-> st.trees,
                     error |-> loaded.error]
               ELSE [features |-> Append(truncated, downstream),
                     trees |-> loaded.trees,
                     error |-> "none"]

\* the downstream feature made by new_handled_data from the template row tf:
\* the attributes of the template, with start, coordinate,
\* start_is_biological_start and transcribed_pieces set anew
downstream_row(tf, c, old_coords, plus, downstream_pieces) ==
    [tf EXCEPT !.start = down_at(c, plus),
               !.coordinate = old_coords,
               !.start_is_biological_start = FALSE,
               !.transcribed_pieces = downstream_pieces]

\* set_status_downstream_border up to downstream.load_to_intervaltree(trees):
\* the assertion, the list of pieces with the new piece in the place of the
\* old one, the downstream feature made from the template as it is now, and
\* its entry in the index.  When the index refuses the entry the feature is
\* already made and attached to its pieces, and it stays.
\* st = [features, trees, error]
downstream_setup(st, c, old_coords, plus, template_feature, new_piece, old_piece) ==
    LET fs == st.features
        tf == fs[template_feature]
    IN IF old_piece \notin Range(tf.transcribed_pieces)
       THEN [st EXCEPT !.error = "AssertionError"]
       ELSE LET downstream_pieces ==
                    swap_list_item(tf.transcribed_pieces, new_piece, old_piece)
                withNew == Append(fs, downstream_row(tf, c, old_coords, plus,
                                                     downstream_pieces))
                loaded == load_to_intervaltree(st.trees, withNew, Len(withNew))
            IN [features |-> withNew, trees |-> loaded.trees, error |-> loaded.error]

\* the template feature is truncated until it is contained in the new coordinates
truncate_template(fs, c, plus, template_feature) ==
    [fs EXCEPT ![template_feature].end = down_at(c, plus),
               ![template_feature].end_is_biological_end = FALSE,
               ![template_feature].coordinate = c.id]

\* st = [features, trees, error]
set_status_downstream_border(st, c, old_coords, plus, template_feature, new_piece, old_piece) ==
    LET made == downstream_setup(st, c, old_coords, plus, template_feature,
                                 new_piece, old_piece)
    IN IF made.error # "none" THEN made
       ELSE [made EXCEPT !.features = truncate_template(@, c, plus, template_feature)]

\* faulty variant: only the first feature of the group is split
border_group_first_only(st, group, c, old_coords, plus, new_piece, old_piece) ==
    IF group = <<>> \/ st.error # "none" THEN st
    ELSE set_status_downstream_border(st, c, old_coords, plus, Head(group),
                                      new_piece, old_piece)

\* the loop over the features of a border group; it stops at the first error
RECURSIVE border_group(_, _, _, _, _, _, _)
border_group(st, group, c, old_coords, plus, new_piece, old_piece) ==
    IF group = <<>> \/ st.error # "none" THEN st
    ELSE border_group(
            set_status_downstream_border(st, c, old_coords, plus, Head(group),
                                         new_piece, old_piece),
            Tail(group), c, old_coords, plus, new_piece, old_piece)

\* faulty variant: the records name the coordinates the features came from
coord_swap_records_old_id(group, c) ==
    [k \in DOMAIN group |-> [feat_id |-> group[k], coordinate_id_new |-> OriginalCoords.id]]

coord_swap_records(group, c) ==
    [k \in DOMAIN group |-> [feat_id |-> group[k], coordinate_id_new |-> c.id]]

\* faulty variant: old and new piece are exchanged in the records
piece_swap_records_reversed(group, old_piece, new_piece) ==
    [k \in DOMAIN group |->
        [piece_id_old |-> new_piece, piece_id_new |-> old_piece, feat_id |-> group[k]]]

piece_swap_records(group, old_piece, new_piece) ==
    [k \in DOMAIN group |->
        [piece_id_old |-> old_piece, piece_id_new |-> new_piece, feat_id |-> group[k]]]

\* r = [features, pieces, core_queue, trees, trimmer, error, branch] is the state
\* the loop body of modify4new_slice works on

\* faulty variant: the coordinates are assigned at once instead of queued
on_contained_applies(r, aligned_features, c) ==
    [r EXCEPT
        !.trimmer.seen_one_overlap = TRUE,
        !.features = apply_coord_swaps(@, coord_swap_records(aligned_features, c))]

\* the contained branch
on_contained(r, aligned_features, c) ==
    [r EXCEPT
        !.trimmer.seen_one_overlap = TRUE,
        !.core_queue.coord_swaps = @ \o coord_swap_records(aligned_features, c)]

\* faulty variant: an error in the branch undoes the piece, the flush and the
\* splits of the branch
on_overlaps_downstream_rollback(r, aligned_features, piece, c, old_coordinate, plus) ==
    LET dp == downstream_piece(r.pieces, r.trimmer, piece)
        flushed == execute_so_far(r.features, r.core_queue)
        done == border_group(
                    [features |-> flushed.features, trees |-> r.trees, error |-> "none"],
                    aligned_features, c, old_coordinate, plus, dp.new_piece, piece)
    IN IF done.error # "none"
       THEN [r EXCEPT !.error = done.error]
       ELSE [r EXCEPT
                !.trimmer.seen_one_overlap = TRUE,
                !.trimmer.piece_at_border = piece,
                !.trimmer._downstream_piece = dp.new_piece,
                !.pieces = dp.pieces,
                !.core_queue = flushed.core_queue,
                !.features = done.features,
                !.trees = done.trees,
                !.error = done.error]

\* the overlaps_downstream branch
on_overlaps_downstream(r, aligned_features, piece, c, old_coordinate, plus) ==
    LET dp == downstream_piece(r.pieces, r.trimmer, piece)
        flushed == execute_so_far(r.features, r.core_queue)
        done == border_group(
                    [features |-> flushed.features, trees |-> r.trees, error |-> "none"],
                    aligned_features, c, old_coordinate, plus, dp.new_piece, piece)
    IN [r EXCEPT
            !.trimmer.seen_one_overlap = TRUE,
            !.trimmer.piece_at_border = piece,
            !.trimmer._downstream_piece = dp.new_piece,
            !.pieces = dp.pieces,
            !.core_queue = flushed.core_queue,
            !.features = done.features,
            !.trees = done.trees,
            !.error = done.error]

\* faulty variant: the branch does not ask whether a border piece was identified
on_downstream_unguarded(r, aligned_features, piece) ==
    LET dp == downstream_piece(r.pieces, r.trimmer, piece)
    IN [r EXCEPT
            !.trimmer._downstream_piece = dp.new_piece,
            !.pieces = dp.pieces,
            !.core_queue.piece_swaps =
                @ \o piece_swap_records(aligned_features, piece, dp.new_piece)]

\* faulty variant: the group need not be on the piece at the border
on_downstream_any_piece(r, aligned_features, piece) ==
    IF r.trimmer.piece_at_border # None
    THEN LET dp == downstream_piece(r.pieces, r.trimmer, piece)
         IN [r EXCEPT
                !.trimmer._downstream_piece = dp.new_piece,
                !.pieces = dp.pieces,
                !.core_queue.piece_swaps =
                    @ \o piece_swap_records(aligned_features, piece, dp.new_piece)]
    ELSE r

\* faulty variant: a downstream group counts as an overlap
on_downstream_counts(r, aligned_features, piece) ==
    IF r.trimmer.piece_at_border # None /\ piece = r.trimmer.piece_at_border
    THEN LET dp == downstream_piece(r.pieces, r.trimmer, piece)
         IN [r EXCEPT
                !.trimmer._downstream_piece = dp.new_piece,
                !.pieces = dp.pieces,
                !.core_queue.piece_swaps =
                    @ \o piece_swap_records(aligned_features,
                                            r.trimmer.piece_at_border, dp.new_piece)]
    ELSE [r EXCEPT !.trimmer.seen_one_overlap = TRUE]

\* the is_downstream branch
on_downstream(r, aligned_features, piece) ==
    IF r.trimmer.piece_at_border # None /\ piece = r.trimmer.piece_at_border
    THEN LET dp == downstream_piece(r.pieces, r.trimmer, piece)
         IN [r EXCEPT
                !.trimmer._downstream_piece = dp.new_piece,
                !.pieces = dp.pieces,
                !.core_queue.piece_swaps =
                    @ \o piece_swap_records(aligned_features,
                                            r.trimmer.piece_at_border, dp.new_piece)]
    ELSE r

\* one iteration of the loop of modify4new_slice, for the group tm.walk[tm.i]
loop_body(fs, ps, q, tr, tm, c, plus) ==
    LET aligned_features == tm.walk[tm.i].features
        piece == tm.walk[tm.i].piece
        f0 == fs[aligned_features[1]]
        old_coordinate == f0.coordinate
        branch == Branch(f0, c, plus)
        r == [features |-> fs, pieces |-> ps, core_queue |-> q, trees |-> tr,
              trimmer |-> [tm EXCEPT !.i = @ + 1], error |-> "none",
              branch |-> branch]
    IN CASE branch \in {"detached", "upstream", "overlaps_upstream"} -> r
         [] branch = "contained" -> on_contained(r, aligned_features, c)
         [] branch = "overlaps_downstream" ->
                on_overlaps_downstream(r, aligned_features, piece, c, old_coordinate, plus)
         [] branch = "downstream" -> on_downstream(r, aligned_features, piece)
         [] OTHER -> [r EXCEPT !.error = "AssertionError"]

\* the double check of modify4slice after NoFeaturesInSliceError: TRUE when
\* every assert passes
double_check(fs, ps, t, c, plus) ==
    \A piece \in TranscribedPieces(ps, t) :
        \A feature \in PieceFeatures(fs, piece) :
            (plus = fs[feature].is_plus_strand) =>
                IF plus
                THEN ~(c.start <= fs[feature].start /\ fs[feature].start <= c.end)
                ELSE ~(c.start - 1 <= fs[feature].start
                       /\ fs[feature].start <= c.end - 1)

----------------------------------------------------------------------------
(* Initial states: a super locus as the annotation import leaves it *)

Intervals == { iv \in GridPos \X GridPos : iv[1] < iv[2] }

\* the feature row of the strand-adjusted interval [iv[1], iv[2])
FeatureAt(iv, plus, piece) ==
    IF plus THEN Feature(iv[1], iv[2], TRUE, OriginalCoords.id, <<piece>>)
    ELSE Feature(iv[2] - 1, iv[1] - 1, FALSE, OriginalCoords.id, <<piece>>)

IvLessEq(a, b) == a[1] < b[1] \/ (a[1] = b[1] /\ a[2] <= b[2])

\* a layout gives every feature its interval and the position of its piece
Canonical(l) ==
    /\ l[1][2] = 0
    /\ \A i \in 1..(Len(l) - 1) :
        /\ l[i + 1][2] \in {l[i][2], l[i][2] + 1}
        /\ (l[i + 1][2] = l[i][2] => IvLessEq(l[i][1], l[i + 1][1]))

Layouts ==
    UNION { { l \in [1..n -> Intervals \X (0..(n - 1))] : Canonical(l) } :
            n \in 1..MaxInitFeatures }

GridLocus(l, plus) ==
    [features |-> [i \in 1..Len(l) |-> FeatureAt(l[i][1], plus, l[i][2] + 1)],
     pieces |-> [p \in 1..(l[Len(l)][2] + 1) |-> TranscribedPiece(1, p - 1)],
     transcripts |-> 1]

\* a super locus of two transcripts, one feature each
TwoTranscriptLocus(iv1, iv2, plus) ==
    [features |-> << FeatureAt(iv1, plus, 1), FeatureAt(iv2, plus, 2) >>,
     pieces |-> << TranscribedPiece(1, 0), TranscribedPiece(2, 0) >>,
     transcripts |-> 2]

\* plus strand, one piece, features [100,200), [200,500), [500,800)
ScenarioThree ==
    [features |-> << Feature(100, 200, TRUE, OriginalCoords.id, <<1>>),
                     Feature(200, 500, TRUE, OriginalCoords.id, <<1>>),
                     Feature(500, 800, TRUE, OriginalCoords.id, <<1>>) >>,
     pieces |-> << TranscribedPiece(1, 0) >>,
     transcripts |-> 1]

\* a transcript at [100,200)
ScenarioOutside ==
    [features |-> << Feature(100, 200, TRUE, OriginalCoords.id, <<1>>) >>,
     pieces |-> << TranscribedPiece(1, 0) >>,
     transcripts |-> 1]

\* minus strand, raw start 100, end 200
ScenarioMinus ==
    [features |-> << Feature(100, 200, FALSE, OriginalCoords.id, <<1>>) >>,
     pieces |-> << TranscribedPiece(1, 0) >>,
     transcripts |-> 1]

\* plus strand, one piece, nested features [10,500), [60,500), [200,500)
ScenarioNested ==
    [features |-> << Feature(10, 500, TRUE, OriginalCoords.id, <<1>>),
                     Feature(60, 500, TRUE, OriginalCoords.id, <<1>>),
                     Feature(200, 500, TRUE, OriginalCoords.id, <<1>>) >>,
     pieces |-> << TranscribedPiece(1, 0) >>,
     transcripts |-> 1]

\* a minus-strand row as the Feature table admits it: 1 <= start <= end
RawMinusLocus(start, end) ==
    [features |-> << Feature(start, end, FALSE, OriginalCoords.id, <<1>>) >>,
     pieces |-> << TranscribedPiece(1, 0) >>,
     transcripts |-> 1]

\* two transcripts, one piece each, sharing one feature; the feature lists the
\* piece of the second transcript first
SharedFeatureLocus(iv, plus) ==
    [features |-> << [FeatureAt(iv, plus, 1) EXCEPT !.transcribed_pieces = <<2, 1>>] >>,
     pieces |-> << TranscribedPiece(1, 0), TranscribedPiece(2, 0) >>,
     transcripts |-> 2]

InitLoci ==
    { GridLocus(l, plus) : l \in Layouts, plus \in BOOLEAN }
    \cup { TwoTranscriptLocus(iv1, iv2, plus) :
                iv1 \in Intervals, iv2 \in Intervals, plus \in BOOLEAN }
    \cup { SharedFeatureLocus(iv, plus) : iv \in Intervals, plus \in BOOLEAN }
    \cup { RawMinusLocus(iv[1], iv[2]) :
                iv \in { x \in (1..GridMax) \X (1..GridMax) : x[1] <= x[2] } }
    \cup { ScenarioThree, ScenarioOutside, ScenarioMinus, ScenarioNested }

\* SuperLocusHandler.load_to_intervaltree on a fresh index: the index it
\* leaves and the error it raised
InitTrees(fs, ps) == load_features({}, fs, super_locus_features(fs, ps, 1), 1)

\* the dict the caller gave to load_to_intervaltree, as the call left it: the
\* entries made before a ValueError stay
CallerTrees(fs, ps) == InitTrees(fs, ps).trees

NoHistory ==
    [pre_features |-> <<>>, pre_pieces |-> <<>>, pre_queue |-> EmptyQueue,
     pre_trees |-> {}, classes |-> <<>>, outcome |-> "none"]

NoCall == [new_coords |-> None, is_plus_strand |-> TRUE]

Init ==
    \E locus \in InitLoci :
        /\ features = locus.features
        /\ pieces = locus.pieces
        /\ transcripts = locus.transcripts
        /\ trees = CallerTrees(locus.features, locus.pieces)
        /\ \/ pc = IF InitTrees(locus.features, locus.pieces).error = "none"
                   THEN "idle" ELSE "load_failed"
           \/ /\ InitTrees(locus.features, locus.pieces).error # "none"
              /\ pc = "idle"
        /\ core_queue = EmptyQueue
        /\ new_coords = None
        /\ is_plus_strand = TRUE
        /\ transcribed = 1
        /\ trimmer = NewTrimmer(1)
        /\ calls = 0
        /\ hist = NoHistory
        /\ last_call = NoCall
        /\ trees_is_none = FALSE

----------------------------------------------------------------------------
(* Actions *)

\* SuperLocusHandler.modify4slice is entered
Modify4slice ==
    /\ pc = "idle"
    /\ calls < MaxCalls
    /\ \E c \in Slices, plus \in BOOLEAN, none \in BOOLEAN :
        /\ new_coords' = c.id
        /\ is_plus_strand' = plus
        /\ trees_is_none' = none
    /\ transcribed' = 1
    /\ calls' = calls + 1
    /\ pc' = "loop"
    /\ UNCHANGED <<features, pieces, core_queue, trees, transcripts, trimmer, hist>>
    /\ UNCHANGED last_call

\* the next transcript gets its trimmer; modify4new_slice materialises the walk
Modify4newSlice ==
    /\ pc = "loop"
    /\ transcribed <= transcripts
    /\ trimmer' = [NewTrimmer(transcribed) EXCEPT
                      !.walk = transition_5p_to_3p(features, pieces, transcribed)]
    /\ hist' = [pre_features |-> features, pre_pieces |-> pieces,
                pre_queue |-> core_queue, pre_trees |-> trees,
                classes |-> <<>>, outcome |-> "running"]
    /\ pc' = "walk"
    /\ UNCHANGED <<features, pieces, core_queue, trees, transcripts, new_coords,
                   is_plus_strand, transcribed, calls>>
    /\ UNCHANGED <<last_call, trees_is_none>>

\* the trees of modify4new_slice: the caller's index, or the dict made for
\* trees=None
LocalTrees == IF trees_is_none THEN trimmer.trees ELSE trees

\* one group of the walk is handled
WalkStep ==
    /\ pc = "walk"
    /\ trimmer.i <= Len(trimmer.walk)
    /\ LET r == loop_body(features, pieces, core_queue, LocalTrees, trimmer,
                          Coord(new_coords), is_plus_strand)
       IN /\ features' = r.features
          /\ pieces' = r.pieces
          /\ core_queue' = r.core_queue
          /\ trees' = IF trees_is_none THEN trees ELSE r.trees
          /\ trimmer' = IF trees_is_none THEN [r.trimmer EXCEPT !.trees = r.trees]
                         ELSE r.trimmer
          /\ hist' = [hist EXCEPT !.classes = Append(@, r.branch),
                                  !.outcome = IF r.error = "none" THEN @ ELSE r.error]
          /\ pc' = IF r.error = "none" THEN "walk" ELSE "failed"
    /\ UNCHANGED <<transcripts, new_coords, is_plus_strand, transcribed, calls>>
    /\ UNCHANGED <<last_call, trees_is_none>>

\* faulty variant: the memoized piece is kept when the call returns
WalkEnd_keeps_piece ==
    /\ pc = "walk"
    /\ trimmer.i > Len(trimmer.walk)
    /\ IF ~trimmer.seen_one_overlap
       THEN /\ hist' = [hist EXCEPT !.outcome = "NoFeaturesInSliceError"]
            /\ pc' = "except"
       ELSE /\ hist' = [hist EXCEPT !.outcome = "returned"]
            /\ pc' = "returned"
    /\ UNCHANGED <<features, pieces, core_queue, trees, transcripts, new_coords,
                   is_plus_strand, transcribed, trimmer, calls>>
    /\ UNCHANGED <<last_call, trees_is_none>>

\* the walk is over: NoFeaturesInSliceError, or the memoized piece is reset
WalkEnd ==
    /\ pc = "walk"
    /\ trimmer.i > Len(trimmer.walk)
    /\ IF ~trimmer.seen_one_overlap
       THEN /\ hist' = [hist EXCEPT !.outcome = "NoFeaturesInSliceError"]
            /\ pc' = "except"
            /\ UNCHANGED trimmer
       ELSE /\ hist' = [hist EXCEPT !.outcome = "returned"]
            /\ pc' = "returned"
            /\ trimmer' = [trimmer EXCEPT !._downstream_piece = None]
    /\ UNCHANGED <<features, pieces, core_queue, trees, transcripts, new_coords,
                   is_plus_strand, transcribed, calls>>
    /\ UNCHANGED <<last_call, trees_is_none>>

\* modify4new_slice returned: on to the next transcript
NextTranscribed ==
    /\ pc = "returned"
    /\ transcribed' = transcribed + 1
    /\ pc' = "loop"
    /\ UNCHANGED <<features, pieces, core_queue, trees, transcripts, new_coords,
                   is_plus_strand, trimmer, calls, hist>>
    /\ UNCHANGED <<last_call, trees_is_none>>

\* the except branch: the double check, then the next transcript
DoubleCheck ==
    /\ pc = "except"
    /\ IF double_check(features, pieces, transcribed, Coord(new_coords), is_plus_strand)
       THEN /\ transcribed' = transcribed + 1
            /\ pc' = "loop"
       ELSE /\ pc' = "assert_failed"
            /\ UNCHANGED transcribed
    /\ UNCHANGED <<features, pieces, core_queue, trees, transcripts, new_coords,
                   is_plus_strand, trimmer, calls, hist>>
    /\ UNCHANGED <<last_call, trees_is_none>>

\* modify4slice returns after the last transcript; its locals are gone
Modify4sliceReturn ==
    /\ pc = "loop"
    /\ transcribed > transcripts
    /\ pc' = "idle"
    /\ new_coords' = None
    /\ is_plus_strand' = TRUE
    /\ transcribed' = 1
    /\ trimmer' = NewTrimmer(1)
    /\ hist' = NoHistory
    /\ UNCHANGED <<features, pieces, core_queue, trees, transcripts, calls>>
    /\ last_call' = [new_coords |-> new_coords, is_plus_strand |-> is_plus_strand]
    /\ trees_is_none' = FALSE

\* the caller flushes the batch queue between two modify4slice calls
ExecuteSoFar ==
    /\ pc = "idle"
    /\ core_queue # EmptyQueue
    /\ features' = execute_so_far(features, core_queue).features
    /\ core_queue' = execute_so_far(features, core_queue).core_queue
    /\ UNCHANGED <<pieces, trees, transcripts, pc, new_coords, is_plus_strand,
                   transcribed, trimmer, calls, hist>>
    /\ UNCHANGED <<last_call, trees_is_none>>

Next ==
    \/ Modify4slice
    \/ Modify4newSlice
    \/ WalkStep
    \/ WalkEnd
    \/ NextTranscribed
    \/ DoubleCheck
    \/ Modify4sliceReturn
    \/ ExecuteSoFar

Spec == Init /\ [][Next]_vars

----------------------------------------------------------------------------
(* Vocabulary of the properties *)

\* the slice of the modify4slice call in progress
Slice == Coord(new_coords)

\* a modify4new_slice call is in progress or has ended without a fatal error
CallAlive == pc \in {"walk", "returned", "except"}

\* modify4new_slice has ended: returned, NoFeaturesInSliceError, or a fatal error
CallEnded == pc \in {"returned", "except", "failed"}

\* the strand-adjusted positions [py_start, py_end) a feature row covers
PySet(f) ==
    { x \in (feature_py_start(f, f.is_plus_strand))..(feature_py_end(f, f.is_plus_strand) - 1) :
        TRUE }

SlicePositions(c) == { x \in (c.start)..(c.end - 1) : TRUE }

\* lowest and highest bound of the region a feature row touches
PyLow(f) ==
    IF feature_py_start(f, f.is_plus_strand) <= feature_py_end(f, f.is_plus_strand)
    THEN feature_py_start(f, f.is_plus_strand) ELSE feature_py_end(f, f.is_plus_strand)

PyHigh(f) ==
    IF feature_py_start(f, f.is_plus_strand) <= feature_py_end(f, f.is_plus_strand)
    THEN feature_py_end(f, f.is_plus_strand) ELSE feature_py_start(f, f.is_plus_strand)

\* the features the current transcript had when the call began
PreFeaturesOfTranscript ==
    UNION { PieceFeatures(hist.pre_features, p) :
            p \in TranscribedPieces(hist.pre_pieces, trimmer.transcript) }

\* the groups visited so far that took the overlaps_downstream branch
BorderGroups ==
    { j \in DOMAIN hist.classes : hist.classes[j] = "overlaps_downstream" }

RECURSIVE ConcatGroups(_, _)
ConcatGroups(j, n) ==
    IF j > n THEN <<>>
    ELSE (IF j \in BorderGroups THEN trimmer.walk[j].features ELSE <<>>)
         \o ConcatGroups(j + 1, n)

\* the features handed to set_status_downstream_border so far, in order
BorderTemplates == ConcatGroups(1, Len(hist.classes))

\* the k-th feature created by the call
Created(k) == Len(hist.pre_features) + k

\* the cut point of the call, from the slice and the strand flag
CutPoint == IF is_plus_strand THEN Slice.end ELSE Slice.start - 1

----------------------------------------------------------------------------
(* Properties *)

\* C1: every feature handed to the border split gets exactly one new feature;
\* the original keeps its start and ends at the cut point, the new feature
\* starts at the cut point and ends where the original ended before the call,
\* and the two strand-adjusted intervals partition the original's interval.
C1_BorderSplitPartitions ==
    CallAlive =>
        /\ Len(features) = Len(hist.pre_features) + Len(BorderTemplates)
        /\ \A k \in DOMAIN BorderTemplates :
            LET f == BorderTemplates[k]
                before == hist.pre_features[f]
                original == features[f]
                new == features[Created(k)]
            IN /\ original.end = CutPoint
               /\ original.start = before.start
               /\ new.start = CutPoint
               /\ new.end = before.end
               /\ PySet(original) \cap PySet(new) = {}
               /\ PySet(original) \cup PySet(new) = PySet(before)
               /\ PySet(original) # {}
               /\ PySet(new) # {}

\* a minus-strand call has returned after splitting two aligned features
C1_Witness ==
    /\ pc = "returned"
    /\ ~is_plus_strand
    /\ Len(BorderTemplates) >= 2

\* a feature of the current transcript that, when the call began, lay entirely
\* within the slice, on the slice's sequence and on the strand of the call
ContainedBefore(f) ==
    LET before == hist.pre_features[f]
    IN /\ Coord(before.coordinate).seqid = Slice.seqid
       /\ before.is_plus_strand = is_plus_strand
       /\ PySet(before) # {}
       /\ PySet(before) \subseteq SlicePositions(Slice)

CoordSwapPending(f) ==
    \E k \in DOMAIN core_queue.coord_swaps :
        core_queue.coord_swaps[k] = [feat_id |-> f, coordinate_id_new |-> new_coords]

\* C2 as stated: when modify4new_slice returns, every feature that lay within
\* the slice has the slice's coordinates and its old start and end.
C2_AsClaimed ==
    pc = "returned" =>
        \A f \in PreFeaturesOfTranscript :
            ContainedBefore(f) =>
                /\ features[f].coordinate = new_coords
                /\ features[f].start = hist.pre_features[f].start
                /\ features[f].end = hist.pre_features[f].end

\* C2 (amended): when modify4new_slice returns, every feature that lay within
\* the slice keeps its start and end, and either has the slice's coordinates or
\* has a coord_swap record to the slice's id waiting in the batch queue.
C2_ContainedReassignedOrQueued ==
    pc = "returned" =>
        \A f \in PreFeaturesOfTranscript :
            ContainedBefore(f) =>
                /\ features[f].coordinate = new_coords \/ CoordSwapPending(f)
                /\ features[f].start = hist.pre_features[f].start
                /\ features[f].end = hist.pre_features[f].end

\* a call has returned with a contained feature whose reassignment is only queued
C2_Witness ==
    /\ pc = "returned"
    /\ \E f \in PreFeaturesOfTranscript :
        /\ ContainedBefore(f)
        /\ features[f].coordinate # new_coords
        /\ CoordSwapPending(f)

\* the first call on the three-feature scenario with slice [0,400), plus strand
ScenarioThreeCall ==
    /\ calls = 1
    /\ hist.pre_features = ScenarioThree.features
    /\ new_coords = 2
    /\ is_plus_strand

\* what the scenario's call leaves, apart from feature 3's piece
ScenarioThreeSplit ==
    /\ pc = "returned"
    /\ Len(features) = 4
    /\ Len(pieces) = 2
    /\ features[1].coordinate = 2
    /\ features[1].start = 100 /\ features[1].end = 200
    /\ features[2].coordinate = 2
    /\ features[2].start = 200 /\ features[2].end = 400
    /\ features[4].coordinate = OriginalCoords.id
    /\ features[4].start = 400 /\ features[4].end = 500
    /\ features[4].transcribed_pieces = <<2>>
    /\ pieces[2] = TranscribedPiece(1, 1)
    /\ features[3].start = 500 /\ features[3].end = 800

\* C3 as stated: after the call has returned feature 3 belongs to the new piece
\* and no longer to the old piece.
C3_AsClaimed ==
    (ScenarioThreeCall /\ CallEnded) =>
        /\ ScenarioThreeSplit
        /\ features[3].transcribed_pieces = <<2>>

\* C3 (amended): the call returns without NoFeaturesInSliceError; feature 1 has
\* the slice's coordinates, feature 2 is [200,400) under the slice, one new
\* feature [400,500) exists under the original coordinates in a new piece;
\* feature 3 is still in the old piece and a piece-swap record old -> new is
\* queued for it, which the next flush of the queue applies.
C3_ScenarioThree ==
    /\ (ScenarioThreeCall /\ CallEnded) =>
        /\ ScenarioThreeSplit
        /\ features[3].transcribed_pieces = <<1>>
        /\ core_queue.piece_swaps =
              << [piece_id_old |-> 1, piece_id_new |-> 2, feat_id |-> 3] >>
        /\ core_queue.coord_swaps = <<>>
    /\ (/\ pc = "idle" /\ calls = 1 /\ core_queue = EmptyQueue
        /\ Len(features) = 4 /\ features[1].start = 100 /\ features[4].start = 400) =>
        features[3].transcribed_pieces = <<2>>

\* the scenario's call has returned
C3_Witness == ScenarioThreeCall /\ pc = "returned"

\* the positions the pieces of transcript t hold
Positions(t) == { pieces[p].position : p \in TranscribedPieces(pieces, t) }

\* C4: in every state the pieces of a transcript hold the positions
\* 0 .. (number of pieces - 1), each once.
C4_DensePositions ==
    \A t \in 1..transcripts :
        /\ Positions(t) = 0..(Cardinality(TranscribedPieces(pieces, t)) - 1)
        /\ \A p, q \in TranscribedPieces(pieces, t) :
            pieces[p].position = pieces[q].position => p = q

\* a split has renumbered a higher piece: a piece created by an earlier split
\* was moved up by a split at a piece before it
C4_Witness ==
    /\ CallAlive
    /\ Len(pieces) >= 3
    /\ \E p \in DOMAIN hist.pre_pieces :
        pieces[p].position = hist.pre_pieces[p].position + 1

\* C5 as stated: NoFeaturesInSliceError is raised exactly when no group of the
\* walk was contained or overlapped a boundary of the slice.
C5_AsClaimed ==
    pc \in {"returned", "except"} =>
        (pc = "except" <=>
            \A j \in DOMAIN hist.classes :
                hist.classes[j] \notin
                    {"contained", "overlaps_upstream", "overlaps_downstream"})

\* the transcript whose trim has just been skipped by modify4slice
SkippedTranscript ==
    UNION { PieceFeatures(features, p) :
            p \in TranscribedPieces(pieces, trimmer.transcript) }

\* C6 as stated: a transcript whose trim raised NoFeaturesInSliceError is
\* skipped (the loop of modify4slice goes on) only if none of its features on
\* the processed strand overlaps the slice.
C6_AsClaimed ==
    (pc = "loop" /\ hist.outcome = "NoFeaturesInSliceError") =>
        \A f \in SkippedTranscript :
            (/\ features[f].is_plus_strand = is_plus_strand
             /\ Coord(features[f].coordinate).seqid = Slice.seqid) =>
                PySet(features[f]) \cap SlicePositions(Slice) = {}

\* a feature row that lies outside slice c in a call on strand plus
Outside(f, c, plus) ==
    \/ Coord(f.coordinate).seqid # c.seqid
    \/ f.is_plus_strand # plus
    \/ PyHigh(f) <= c.start
    \/ PyLow(f) >= c.end

AllOutsideBefore ==
    \A f \in PreFeaturesOfTranscript :
        Outside(hist.pre_features[f], Slice, is_plus_strand)

\* C7: a call on a transcript all of whose features lie outside the slice ends
\* with NoFeaturesInSliceError and leaves features, pieces, batch queue and
\* interval index exactly as they were when it began.
C7_OutsideRaisesUnchanged ==
    ((CallEnded \/ pc = "walk") /\ AllOutsideBefore) =>
        /\ pc \in {"walk", "except"}
        /\ features = hist.pre_features
        /\ pieces = hist.pre_pieces
        /\ core_queue = hist.pre_queue
        /\ trees = hist.pre_trees

\* the transcript at [100,200) was trimmed to slice [0,50) and the error raised
C7_Witness ==
    /\ pc = "except"
    /\ hist.pre_features = ScenarioOutside.features
    /\ new_coords = 3
    /\ is_plus_strand

\* the first call on the minus-strand scenario with slice [50,150), minus strand
ScenarioMinusCall ==
    /\ calls = 1
    /\ hist.pre_features = ScenarioMinus.features
    /\ new_coords = 4
    /\ ~is_plus_strand

\* C8 as stated: the feature is treated as crossing the downstream border, cut
\* at slice.start - 1 = 49, the retained part assigned to the slice and a new
\* downstream feature created that starts at the cut.
C8_AsClaimed ==
    (ScenarioMinusCall /\ CallEnded) =>
        /\ hist.classes = <<"overlaps_downstream">>
        /\ features[1].end = 49
        /\ features[1].coordinate = 4
        /\ Len(features) = 2
        /\ features[2].start = 49

\* C8 (amended): with raw start 100, end 200 on the minus strand the adjusted
\* start is 201 >= slice.end, so the feature is classified upstream: nothing is
\* cut or created and NoFeaturesInSliceError is raised.  The cut slice.start - 1
\* is applied exactly to minus-strand features with
\* end + 1 < slice.start < start + 1 <= slice.end, and the new feature then lies
\* entirely below slice.start, downstream in the minus direction.
C8_MinusScenario ==
    /\ (ScenarioMinusCall /\ CallEnded) =>
        /\ pc = "except"
        /\ hist.classes = <<"upstream">>
        /\ features = hist.pre_features
        /\ pieces = hist.pre_pieces
    /\ (CallAlive /\ ~is_plus_strand) =>
        /\ \A j \in DOMAIN hist.classes :
            LET before == hist.pre_features[trimmer.walk[j].features[1]]
            IN (/\ before.is_plus_strand = is_plus_strand
                /\ Coord(before.coordinate).seqid = Slice.seqid
                /\ before.end + 1 < Slice.start
                /\ Slice.start < before.start + 1
                /\ before.start + 1 <= Slice.end)
               <=> hist.classes[j] = "overlaps_downstream"
        /\ \A k \in DOMAIN BorderTemplates :
            /\ features[BorderTemplates[k]].end = Slice.start - 1
            /\ features[Created(k)].start = Slice.start - 1
            /\ PyHigh(features[Created(k)]) <= Slice.start
            /\ PySet(features[Created(k)]) # {}

\* the minus-strand scenario has ended with the error
C8_Witness == ScenarioMinusCall /\ pc = "except"

\* the predicates of FeatureVsCoords that hold of feature row f
TruePredicates(f, c, plus) ==
    { n \in {"is_detached", "is_upstream", "is_downstream", "is_contained",
             "overlaps_upstream", "overlaps_downstream"} :
        CASE n = "is_detached" -> is_detached(f, c, plus)
          [] n = "is_upstream" -> is_upstream(f, c, plus)
          [] n = "is_downstream" -> is_downstream(f, c, plus)
          [] n = "is_contained" -> is_contained(f, c, plus)
          [] n = "overlaps_upstream" -> overlaps_upstream(f, c, plus)
          [] OTHER -> overlaps_downstream(f, c, plus) }

\* C9 as stated, for the features the walk classifies that are on the slice's
\* sequence and strand and have a non-empty interval: exactly one of the six
\* predicates holds, and the two overlap predicates never hold together.
C9_AsClaimed ==
    (pc = "walk" /\ trimmer.i <= Len(trimmer.walk)) =>
        LET f0 == features[trimmer.walk[trimmer.i].features[1]]
        IN (~is_detached(f0, Slice, is_plus_strand) /\ PySet(f0) # {}) =>
            /\ Cardinality(TruePredicates(f0, Slice, is_plus_strand)) = 1
            /\ ~(overlaps_upstream(f0, Slice, is_plus_strand)
                 /\ overlaps_downstream(f0, Slice, is_plus_strand))

\* C10: in every state a feature that carries a slice's coordinates lies
\* within that slice; and after a border split the truncated original
\* classifies as contained and the new feature as downstream of the slice.
C10_WithinAssignedSlice ==
    /\ \A f \in DOMAIN features :
        features[f].coordinate # OriginalCoords.id =>
            LET c == Coord(features[f].coordinate)
            IN /\ c.start <= PyLow(features[f])
               /\ PyHigh(features[f]) <= c.end
               /\ is_contained(features[f], c, features[f].is_plus_strand)
    /\ CallAlive =>
        \A k \in DOMAIN BorderTemplates :
            /\ Branch(features[BorderTemplates[k]], Slice, is_plus_strand) = "contained"
            /\ Branch(features[Created(k)], Slice, is_plus_strand) = "downstream"

\* a second call has split a feature at the border while another feature
\* carries the coordinates of the first call's slice
C10_Witness ==
    /\ calls = 2
    /\ pc = "returned"
    /\ Len(BorderTemplates) >= 1
    /\ \E f \in DOMAIN features :
        features[f].coordinate \notin {OriginalCoords.id, new_coords}

\* the check constraints of the Feature table
FeatureConstraints(f) == f.start >= 1 /\ f.end >= f.start

AllFeaturesValid == \A f \in DOMAIN features : FeatureConstraints(features[f])

\* C11: a step of the program never takes a state in which every feature has
\* start >= 1 and end >= start to a state in which some feature, truncated or
\* newly created, breaks one of the two constraints.
C11_ConstraintsPreserved == [][AllFeaturesValid => AllFeaturesValid']_vars

\* a call on features that met the constraints has split one at the border
C11_Witness ==
    /\ pc = "returned"
    /\ Len(BorderTemplates) >= 1
    /\ \A f \in DOMAIN hist.pre_features : FeatureConstraints(hist.pre_features[f])
    /\ AllFeaturesValid

RECURSIVE ConcatGroupPieces(_, _)
ConcatGroupPieces(j, n) ==
    IF j > n THEN <<>>
    ELSE (IF j \in BorderGroups
          THEN [k \in DOMAIN trimmer.walk[j].features |-> trimmer.walk[j].piece]
          ELSE <<>>)
         \o ConcatGroupPieces(j + 1, n)

\* the piece each border template was met in, parallel to BorderTemplates
BorderPieces == ConcatGroupPieces(1, Len(hist.classes))

\* the piece the call has created
NewPiece == Len(hist.pre_pieces) + 1

\* the coordinates of the features of the call's pre-state once the records
\* that were waiting in the queue when the call began are applied
PreFlushed == execute_so_far(hist.pre_features, hist.pre_queue).features

\* C12: for every feature split at the border, the new feature carries the
\* coordinates the template had before the split (those it had when the call
\* began, or, if a coordinate swap for it was still waiting in the queue, that
\* swap's coordinates for a later border group of the call), its piece list is the
\* template's with the old piece replaced by the new piece at the same index,
\* the new feature is not in the old piece, the template's piece list is as it
\* was, and the template carries the slice's coordinates.
C12_SwapNotAdd ==
    CallAlive =>
        \A k \in DOMAIN BorderTemplates :
            LET before == hist.pre_features[BorderTemplates[k]]
                template == features[BorderTemplates[k]]
                downstream == features[Created(k)]
                old == BorderPieces[k]
                idx == CHOOSE i \in DOMAIN before.transcribed_pieces :
                            /\ before.transcribed_pieces[i] = old
                            /\ \A j \in 1..(i - 1) : before.transcribed_pieces[j] # old
            IN /\ hist.pre_queue.coord_swaps = <<>> =>
                    downstream.coordinate = before.coordinate
               /\ downstream.coordinate \in
                    {before.coordinate, PreFlushed[BorderTemplates[k]].coordinate}
               /\ k = 1 => downstream.coordinate = before.coordinate
               /\ Len(downstream.transcribed_pieces) = Len(before.transcribed_pieces)
               /\ \A i \in DOMAIN before.transcribed_pieces :
                    downstream.transcribed_pieces[i] =
                        IF i = idx THEN NewPiece ELSE before.transcribed_pieces[i]
               /\ old \notin Range(downstream.transcribed_pieces)
               /\ template.transcribed_pieces = before.transcribed_pieces
               /\ template.coordinate = new_coords

\* a feature of two pieces was split; the old piece was second in its list
C12_Witness ==
    /\ pc = "returned"
    /\ Len(BorderTemplates) >= 1
    /\ features[Created(1)].transcribed_pieces = <<2, NewPiece>>
    /\ features[BorderTemplates[1]].transcribed_pieces = <<2, 1>>

\* the call in progress has made its new piece
PieceCreated == CallAlive /\ Len(pieces) > Len(hist.pre_pieces)

\* C13: once the call has split at the piece of its first border group, every
\* piece of the transcript that was above that piece is one higher, every other
\* pre-existing piece is where it was, the new piece sits right after the
\* border piece in the same transcript, and the pre-existing pieces keep
\* their relative order.
C13_SplitAfter ==
    PieceCreated =>
        LET given == hist.pre_pieces[BorderPieces[1]]
            t == trimmer.transcript
        IN /\ Len(pieces) = Len(hist.pre_pieces) + 1
           /\ given.transcribed = t
           /\ \A p \in DOMAIN hist.pre_pieces :
                /\ pieces[p].transcribed = hist.pre_pieces[p].transcribed
                /\ pieces[p].position =
                      IF /\ hist.pre_pieces[p].transcribed = t
                         /\ hist.pre_pieces[p].position > given.position
                      THEN hist.pre_pieces[p].position + 1
                      ELSE hist.pre_pieces[p].position
           /\ pieces[NewPiece] = TranscribedPiece(t, given.position + 1)
           /\ \A p, q \in TranscribedPieces(hist.pre_pieces, t) :
                (hist.pre_pieces[p].position < hist.pre_pieces[q].position)
                    <=> (pieces[p].position < pieces[q].position)

\* the first of two pieces was split: the second moved up, the first stayed
C13_Witness ==
    /\ PieceCreated
    /\ hist.pre_pieces[BorderPieces[1]].position = 0
    /\ pieces[BorderPieces[1]].position = 0
    /\ \E p \in DOMAIN hist.pre_pieces :
        /\ hist.pre_pieces[p] = TranscribedPiece(trimmer.transcript, 1)
        /\ pieces[p] = TranscribedPiece(trimmer.transcript, 2)

\* C14: a call has created exactly one piece if a group of its walk was
\* classified overlaps_downstream and none otherwise; every feature the call
\* created is attached to that piece and every piece-swap record the call has
\* put in the queue names it as the new piece.
C14_OneNewPiece ==
    (CallAlive \/ pc = "failed") =>
        /\ Len(pieces) = Len(hist.pre_pieces) + (IF BorderGroups # {} THEN 1 ELSE 0)
        /\ BorderGroups = {} =>
            /\ Len(features) = Len(hist.pre_features)
            /\ core_queue.piece_swaps = hist.pre_queue.piece_swaps
        /\ BorderGroups # {} =>
            /\ \A f \in (Len(hist.pre_features) + 1)..Len(features) :
                NewPiece \in Range(features[f].transcribed_pieces)
            /\ \A k \in DOMAIN core_queue.piece_swaps :
                core_queue.piece_swaps[k].piece_id_new = NewPiece

\* two groups in two pieces crossed the border in one call: one new piece
C14_Witness ==
    /\ pc = "returned"
    /\ Cardinality(BorderGroups) = 2
    /\ BorderPieces[1] # BorderPieces[2]
    /\ Len(pieces) = Len(hist.pre_pieces) + 1
    /\ Len(features) = Len(hist.pre_features) + 2

\* the slice of the call is exactly the span of the transcript: every feature
\* the transcript had when the call began is on the slice's sequence and has
\* a non-empty interval, the lowest begins at slice.start and the highest
\* ends at slice.end
SliceIsTranscriptSpan ==
    /\ PreFeaturesOfTranscript # {}
    /\ \A f \in PreFeaturesOfTranscript :
        /\ PySet(hist.pre_features[f]) # {}
        /\ Coord(hist.pre_features[f].coordinate).seqid = Slice.seqid
        /\ Slice.start <= PyLow(hist.pre_features[f])
        /\ PyHigh(hist.pre_features[f]) <= Slice.end
    /\ \E f \in PreFeaturesOfTranscript : PyLow(hist.pre_features[f]) = Slice.start
    /\ \E f \in PreFeaturesOfTranscript : PyHigh(hist.pre_features[f]) = Slice.end

\* no feature or piece was created and no start, end or position has changed
IntervalsUntouched ==
    /\ Len(features) = Len(hist.pre_features)
    /\ \A f \in DOMAIN features :
        /\ features[f].start = hist.pre_features[f].start
        /\ features[f].end = hist.pre_features[f].end
        /\ features[f].transcribed_pieces = hist.pre_features[f].transcribed_pieces
    /\ pieces = hist.pre_pieces

\* the transcript is trimmed on its own strand: the strand flag of the call is
\* the strand of its features
OnOwnStrand ==
    \A f \in PreFeaturesOfTranscript :
        hist.pre_features[f].is_plus_strand = is_plus_strand

\* the strand flag of the call is the strand opposite to the transcript's
OnOtherStrand ==
    \A f \in PreFeaturesOfTranscript :
        hist.pre_features[f].is_plus_strand # is_plus_strand

\* C15: a call that trims a transcript against a slice whose [start, end) is
\* exactly the transcript's span creates no piece and no feature and changes
\* no start and no end; every group is classified contained and the call
\* returns without NoFeaturesInSliceError.  (A call with the flag of the other
\* strand does not meet the transcript at all: every group is detached, the
\* intervals are untouched as well, and NoFeaturesInSliceError is raised.)
C15_FullSpanNoOp ==
    (CallEnded /\ SliceIsTranscriptSpan) =>
        /\ IntervalsUntouched
        /\ OnOwnStrand =>
            /\ pc = "returned"
            /\ hist.outcome # "NoFeaturesInSliceError"
            /\ \A j \in DOMAIN hist.classes : hist.classes[j] = "contained"
        /\ OnOtherStrand =>
            /\ pc = "except"
            /\ hist.outcome = "NoFeaturesInSliceError"
            /\ \A j \in DOMAIN hist.classes : hist.classes[j] = "detached"

\* a transcript of two features was trimmed to its span on its own strand
C15_Witness ==
    /\ pc = "returned"
    /\ SliceIsTranscriptSpan
    /\ Cardinality(PreFeaturesOfTranscript) = 2
    /\ OnOwnStrand
    /\ Slice.end - Slice.start >= 2

\* the call in progress repeats the last modify4slice call: same slice, same
\* strand flag, and every record that waited in the queue when it began had
\* already been applied
Reinvocation ==
    /\ pc \in {"walk", "returned", "except", "failed"}
    /\ last_call.new_coords = new_coords
    /\ last_call.is_plus_strand = is_plus_strand
    /\ PreFlushed = hist.pre_features

\* C16: a call that repeats the last call on the same slice and strand, with the
\* queued records of the first call applied, does not fail, creates no piece
\* and no feature, and changes no start, end, coordinate, piece membership or
\* piece position.
C16_ReinvocationNoOp ==
    Reinvocation =>
        /\ pc # "failed"
        /\ features = hist.pre_features
        /\ pieces = hist.pre_pieces

\* the first call split a feature at the border of the slice, its records were
\* applied, and the second call on the same slice has returned
C16_Witness ==
    /\ Reinvocation
    /\ pc = "returned"
    /\ Len(pieces) >= 2
    /\ \E f, g \in DOMAIN features :
        /\ features[f].coordinate = new_coords
        /\ ~features[f].end_is_biological_end
        /\ ~features[g].start_is_biological_start
        /\ features[g].start = features[f].end

\* the strand-adjusted interval [a, b) of a feature row, by its own strand
AdjStart(f) == IF f.is_plus_strand THEN f.start ELSE f.end + 1

AdjEnd(f) == IF f.is_plus_strand THEN f.end ELSE f.start + 1

\* what C17 says of feature row f, slice c and strand flag plus
ClassifierAsDefined(f, c, plus) ==
    /\ is_detached(f, c, plus) <=>
            (Coord(f.coordinate).seqid # c.seqid \/ plus # f.is_plus_strand)
    /\ plus = f.is_plus_strand =>
        /\ is_contained(f, c, plus) <=> (c.start <= AdjStart(f) /\ AdjEnd(f) <= c.end)
        /\ is_upstream(f, c, plus) <=>
                (IF plus THEN AdjEnd(f) <= c.start ELSE AdjStart(f) >= c.end)
        /\ is_downstream(f, c, plus) <=>
                (IF plus THEN AdjStart(f) >= c.end ELSE AdjEnd(f) <= c.start)

\* C17: while a walk classifies, every feature with a non-empty strand-adjusted
\* interval is detached iff the sequence or the strand differs from the
\* call's, and, on the strand of the call, contained iff the interval lies
\* within the slice, upstream iff it ends at or before slice.start (plus) or
\* begins at or after slice.end (minus), and downstream the other way round.
C17_ClassifierDefinitions ==
    pc = "walk" =>
        \A f \in DOMAIN features :
            AdjStart(features[f]) < AdjEnd(features[f]) =>
                ClassifierAsDefined(features[f], Slice, is_plus_strand)

\* a minus-strand walk is at a feature that begins where the slice ends: upstream
C17_Witness ==
    /\ pc = "walk"
    /\ ~is_plus_strand
    /\ trimmer.i <= Len(trimmer.walk)
    /\ LET f0 == features[trimmer.walk[trimmer.i].features[1]]
       IN /\ ~f0.is_plus_strand
          /\ AdjStart(f0) < AdjEnd(f0)
          /\ AdjStart(f0) = Slice.end
          /\ is_upstream(f0, Slice, is_plus_strand)

----------------------------------------------------------------------------
(* Two trimmers in mk_new_piece on one transcript, step by step.  pieces is
   the shared piece table; pc and trimmer hold one entry per trimmer; hist
   remembers the pieces at the start and whether the two runs overlapped. *)

\* pieces the transcript has before the two splits
MaxSplitPieces == 2

Trimmers == {"a", "b"}

\* if old_piece.position > piece.position
is_higher_piece(ps, old_piece, piece) == ps[old_piece].position > ps[piece].position

\* faulty variant: the new piece takes the position of the given piece
new_piece_row_same(ps, t, piece) == TranscribedPiece(t, ps[piece].position)

\* TranscribedPiece(transcribed=self.transcript.data, position=piece.position + 1)
new_piece_row(ps, t, piece) == TranscribedPiece(t, ps[piece].position + 1)

SplitInit ==
    /\ \E n \in 1..MaxSplitPieces :
        /\ pieces = [p \in 1..n |-> TranscribedPiece(1, p - 1)]
        /\ hist = [pre_pieces |-> [p \in 1..n |-> TranscribedPiece(1, p - 1)],
                   overlapped |-> FALSE]
    /\ pc = [w \in Trimmers |-> "idle"]
    /\ trimmer = [w \in Trimmers |->
                    [transcript |-> 1, piece |-> None, i |-> 1, read |-> 0,
                     new_piece |-> TranscribedPiece(1, 0)]]
    /\ features = <<>>
    /\ core_queue = EmptyQueue
    /\ trees = {}
    /\ transcripts = 1
    /\ new_coords = None
    /\ is_plus_strand = TRUE
    /\ transcribed = 1
    /\ calls = 0
    /\ last_call = NoCall
    /\ trees_is_none = FALSE

SplitRest == <<features, core_queue, trees, transcripts, new_coords, is_plus_strand,
               transcribed, calls, last_call, trees_is_none>>

\* mk_new_piece(piece) is entered; old_pieces is the transcript's piece list
MkNewPieceEnter(w) ==
    /\ pc[w] = "idle"
    /\ \E piece \in DOMAIN pieces :
        trimmer' = [trimmer EXCEPT ![w].piece = piece, ![w].i = 1]
    /\ pc' = [pc EXCEPT ![w] = "for"]
    /\ hist' = [hist EXCEPT !.overlapped =
                    @ \/ \E v \in Trimmers \ {w} : pc[v] \notin {"idle", "returned"}]
    /\ UNCHANGED pieces
    /\ UNCHANGED SplitRest

\* one test of the loop: old_piece.position > piece.position
MkNewPieceTest(w) ==
    /\ pc[w] = "for"
    /\ trimmer[w].i <= Len(pieces)
    /\ IF is_higher_piece(pieces, trimmer[w].i, trimmer[w].piece)
       THEN /\ pc' = [pc EXCEPT ![w] = "load"]
            /\ UNCHANGED trimmer
       ELSE /\ trimmer' = [trimmer EXCEPT ![w].i = @ + 1]
            /\ UNCHANGED pc
    /\ UNCHANGED <<pieces, hist>>
    /\ UNCHANGED SplitRest

\* old_piece.position += 1, first half: the position is read again
MkNewPieceLoad(w) ==
    /\ pc[w] = "load"
    /\ trimmer' = [trimmer EXCEPT ![w].read = pieces[trimmer[w].i].position]
    /\ pc' = [pc EXCEPT ![w] = "store"]
    /\ UNCHANGED <<pieces, hist>>
    /\ UNCHANGED SplitRest

\* old_piece.position += 1, second half: the position read, plus one, is
\* written; nothing locks the row between the read and the write
MkNewPieceIncrement(w) ==
    /\ pc[w] = "store"
    /\ pieces' = [pieces EXCEPT ![trimmer[w].i].position = trimmer[w].read + 1]
    /\ trimmer' = [trimmer EXCEPT ![w].i = @ + 1]
    /\ pc' = [pc EXCEPT ![w] = "for"]
    /\ UNCHANGED hist
    /\ UNCHANGED SplitRest

\* the list of pieces is exhausted: the loop is left
MkNewPieceLoopEnd(w) ==
    /\ pc[w] = "for"
    /\ trimmer[w].i > Len(pieces)
    /\ pc' = [pc EXCEPT ![w] = "create"]
    /\ UNCHANGED <<pieces, trimmer, hist>>
    /\ UNCHANGED SplitRest

\* the arguments of the constructor are evaluated: piece.position + 1
MkNewPieceEval(w) ==
    /\ pc[w] = "create"
    /\ trimmer' = [trimmer EXCEPT ![w].new_piece =
                      new_piece_row(pieces, trimmer[w].transcript, trimmer[w].piece)]
    /\ pc' = [pc EXCEPT ![w] = "construct"]
    /\ UNCHANGED <<pieces, hist>>
    /\ UNCHANGED SplitRest

\* the constructor appends the new piece to the transcript's list, at the
\* position evaluated before, whatever has happened to the list since
MkNewPieceCreate(w) ==
    /\ pc[w] = "construct"
    /\ pieces' = Append(pieces, trimmer[w].new_piece)
    /\ pc' = [pc EXCEPT ![w] = "commit"]
    /\ UNCHANGED <<trimmer, hist>>
    /\ UNCHANGED SplitRest

\* session.add_all, session.commit(), and mk_new_piece returns
MkNewPieceCommit(w) ==
    /\ pc[w] = "commit"
    /\ pc' = [pc EXCEPT ![w] = "returned"]
    /\ UNCHANGED <<pieces, trimmer, hist>>
    /\ UNCHANGED SplitRest

SplitNext ==
    \E w \in Trimmers :
        \/ MkNewPieceEnter(w)
        \/ MkNewPieceTest(w)
        \/ MkNewPieceLoad(w)
        \/ MkNewPieceIncrement(w)
        \/ MkNewPieceLoopEnd(w)
        \/ MkNewPieceEval(w)
        \/ MkNewPieceCreate(w)
        \/ MkNewPieceCommit(w)

SpecSplit == SplitInit /\ [][SplitNext]_vars

BothReturned == \A w \in Trimmers : pc[w] = "returned"

DistinctPositions ==
    \A p, q \in DOMAIN pieces : p # q => pieces[p].position # pieces[q].position

\* C18 as stated: however the steps of the two trimmers interleave, once both
\* have returned no two pieces of the transcript hold the same position.
C18_AsClaimed == BothReturned => DistinctPositions

\* C18 (amended): if one trimmer's mk_new_piece returned before the other's was
\* entered, then once both have returned the pieces hold pairwise distinct
\* positions, exactly 0..N+1.
C18_SerializedSplits ==
    (BothReturned /\ ~hist.overlapped) =>
        /\ DistinctPositions
        /\ { pieces[p].position : p \in DOMAIN pieces } = 0..(Len(hist.pre_pieces) + 1)

\* both trimmers split the same piece, one after the other
C18_Witness ==
    /\ BothReturned
    /\ ~hist.overlapped
    /\ trimmer["a"].piece = trimmer["b"].piece
    /\ Len(pieces) = Len(hist.pre_pieces) + 2

----------------------------------------------------------------------------
(* Two workers trim the two transcripts of a super locus against one slice and
   share features, pieces, batch queue and interval index.  A worker goes
   through an iteration of the loop of modify4new_slice statement by
   statement, and a statement that reads a row and one that writes it are
   steps of their own: old_coordinate is read, start and end of the feature
   are read for FeatureVsCoords, the tests of the elif chain are made, every
   record is queued, the piece is made, the queue is flushed, and for every
   feature of a border group the assertion, the new list of pieces, the new
   row, its entry in the index, the three writes to the template and the
   commit follow one another; the other worker may run between any two of
   them.  pc and trimmer hold one entry per worker; hist holds the locals of
   the iteration (old_coordinate, the start and end read, downstream_pieces,
   the index k of the feature of the group in hand); pc also holds the caller,
   who flushes the queue when both workers are through. *)

\* faulty variant: both workers are given the first transcript
TranscriptOf_same(w) == 1

\* the transcript a worker trims
TranscriptOf(w) == IF w = "a" THEN 1 ELSE 2

\* two transcripts, one piece each, sharing two features
SharedPairLocus(iv1, iv2, plus) ==
    [features |-> << [FeatureAt(iv1, plus, 1) EXCEPT !.transcribed_pieces = <<1, 2>>],
                     [FeatureAt(iv2, plus, 1) EXCEPT !.transcribed_pieces = <<1, 2>>] >>,
     pieces |-> << TranscribedPiece(1, 0), TranscribedPiece(2, 0) >>,
     transcripts |-> 2]

\* two transcripts, one piece each; the first has two features of its own
TwoAndOneLocus(iv1, iv2, iv3, plus) ==
    [features |-> << FeatureAt(iv1, plus, 1), FeatureAt(iv2, plus, 1),
                     FeatureAt(iv3, plus, 2) >>,
     pieces |-> << TranscribedPiece(1, 0), TranscribedPiece(2, 0) >>,
     transcripts |-> 2]

ParLoci ==
    { TwoTranscriptLocus(iv1, iv2, plus) :
            iv1 \in Intervals, iv2 \in Intervals, plus \in BOOLEAN }
    \cup { SharedFeatureLocus(iv, plus) : iv \in Intervals, plus \in BOOLEAN }
    \cup { SharedPairLocus(iv1, iv2, plus) :
            iv1 \in Intervals, iv2 \in Intervals, plus \in BOOLEAN }
    \cup { TwoAndOneLocus(iv1, iv2, iv3, TRUE) :
            iv1 \in Intervals, iv2 \in Intervals, iv3 \in Intervals }

\* the trimmer of a worker; downstream is the feature set_status_downstream_border
\* has made and not yet loaded
ParTrimmer(t) ==
    [transcript |-> t, _downstream_piece |-> None, walk |-> <<>>, i |-> 1,
     seen_one_overlap |-> FALSE, piece_at_border |-> None, trees |-> {},
     downstream |-> None]

ParInit ==
    /\ \E locus \in ParLoci :
        /\ features = locus.features
        /\ pieces = locus.pieces
        /\ transcripts = locus.transcripts
        /\ trees = CallerTrees(locus.features, locus.pieces)
        /\ hist = [pre_features |-> locus.features, pre_pieces |-> locus.pieces,
                   outcome |-> [w \in Trimmers |-> "none"], interleaved |-> FALSE,
                   old_coordinate |-> [w \in Trimmers |-> None],
                   interp |-> [w \in Trimmers |-> [start |-> 0, end |-> 0]],
                   downstream_pieces |-> [w \in Trimmers |-> <<>>],
                   k |-> [w \in Trimmers |-> 1]]
    /\ \E c \in GridSlices : new_coords = c.id
    /\ is_plus_strand \in BOOLEAN
    /\ core_queue = EmptyQueue
    /\ pc = [w \in Trimmers \cup {"caller"} |-> "idle"]
    /\ trimmer = [w \in Trimmers |-> ParTrimmer(TranscriptOf(w))]
    /\ transcribed = 1
    /\ calls = 1
    /\ last_call = NoCall
    /\ trees_is_none = FALSE

ParRest ==
    <<transcripts, new_coords, is_plus_strand, transcribed, calls, last_call,
      trees_is_none>>

\* a worker enters modify4new_slice: the walk is materialised
ParEnter(w) ==
    /\ pc[w] = "idle"
    /\ trimmer' = [trimmer EXCEPT ![w] =
                      [ParTrimmer(TranscriptOf(w)) EXCEPT
                          !.walk = transition_5p_to_3p(features, pieces, TranscriptOf(w))]]
    /\ pc' = [pc EXCEPT ![w] = "walk"]
    /\ UNCHANGED <<features, pieces, core_queue, trees, hist>>
    /\ UNCHANGED ParRest

OtherTrimmer(w) == CHOOSE v \in Trimmers : v # w

\* where a worker is while it is inside an iteration of the loop
InIteration == {"interp", "branch", "contained", "downstream", "border",
                "border_piece", "border_assert", "border_swap", "border_new",
                "border_load", "truncate_end", "truncate_flag",
                "truncate_coordinate", "border_commit"}

\* the worker has begun its walk and has not ended it
MidWalk(w) ==
    \/ pc[w] \in InIteration
    \/ /\ pc[w] = "walk"
       /\ trimmer[w].i > 1
       /\ trimmer[w].i <= Len(trimmer[w].walk)

\* the group and the piece of the iteration worker w is in
ParGroup(w) == trimmer[w].walk[trimmer[w].i].features

ParPiece(w) == trimmer[w].walk[trimmer[w].i].piece

\* the feature of the group in hand
ParFeature(w) == ParGroup(w)[hist.k[w]]

\* hist after a step of worker w inside its walk
ParStepped(w, h) == [h EXCEPT !.interleaved = @ \/ MidWalk(OtherTrimmer(w))]

\* the top of an iteration: f0 = aligned_features[0], old_coordinate = f0.coordinate
ParWalkStep(w) ==
    /\ pc[w] = "walk"
    /\ trimmer[w].i <= Len(trimmer[w].walk)
    /\ hist' = ParStepped(w, [hist EXCEPT
                    !.old_coordinate[w] = features[ParGroup(w)[1]].coordinate,
                    !.k[w] = 1])
    /\ pc' = [pc EXCEPT ![w] = "interp"]
    /\ UNCHANGED <<features, pieces, core_queue, trees, trimmer>>
    /\ UNCHANGED ParRest

\* FeatureVsCoords(feature=f0, ...): start and end of f0 are read and kept
ParInterp(w) ==
    /\ pc[w] = "interp"
    /\ hist' = ParStepped(w, [hist EXCEPT
                    !.interp[w] = [start |-> features[ParGroup(w)[1]].start,
                                   end |-> features[ParGroup(w)[1]].end]])
    /\ pc' = [pc EXCEPT ![w] = "branch"]
    /\ UNCHANGED <<features, pieces, core_queue, trees, trimmer>>
    /\ UNCHANGED ParRest

\* the tests of the elif chain: the branch is entered; a branch that passes
\* ends the iteration
ParBranch(w) ==
    /\ pc[w] = "branch"
    /\ LET \* f0 as position_interp sees it: start and end as read when it was
           \* made, coordinate and strand as they are when the tests are made
           f0 == [features[ParGroup(w)[1]] EXCEPT !.start = hist.interp[w].start,
                                                 !.end = hist.interp[w].end]
           branch == Branch(f0, Coord(new_coords), is_plus_strand)
           at_border == /\ trimmer[w].piece_at_border # None
                        /\ ParPiece(w) = trimmer[w].piece_at_border
           h == ParStepped(w, hist)
       IN CASE branch \in {"detached", "upstream", "overlaps_upstream"} ->
                /\ trimmer' = [trimmer EXCEPT ![w].i = @ + 1]
                /\ hist' = h
                /\ pc' = [pc EXCEPT ![w] = "walk"]
            [] branch = "contained" ->
                /\ trimmer' = [trimmer EXCEPT ![w].seen_one_overlap = TRUE]
                /\ hist' = h
                /\ pc' = [pc EXCEPT ![w] = "contained"]
            [] branch = "overlaps_downstream" ->
                /\ trimmer' = [trimmer EXCEPT ![w].seen_one_overlap = TRUE,
                                              ![w].piece_at_border = ParPiece(w)]
                /\ hist' = h
                /\ pc' = [pc EXCEPT ![w] = "border"]
            [] branch = "downstream" /\ at_border ->
                /\ hist' = h
                /\ pc' = [pc EXCEPT ![w] = "downstream"]
                /\ UNCHANGED trimmer
            [] branch = "downstream" /\ ~at_border ->
                /\ trimmer' = [trimmer EXCEPT ![w].i = @ + 1]
                /\ hist' = h
                /\ pc' = [pc EXCEPT ![w] = "walk"]
            [] OTHER ->
                /\ trimmer' = [trimmer EXCEPT ![w].i = @ + 1]
                /\ hist' = [h EXCEPT !.outcome[w] = "AssertionError"]
                /\ pc' = [pc EXCEPT ![w] = "failed"]
    /\ UNCHANGED <<features, pieces, core_queue, trees>>
    /\ UNCHANGED ParRest

\* the feature of the group in hand was the last one: the iteration is over
ParLast(w) == hist.k[w] = Len(ParGroup(w))

\* the contained branch: the coord_swap record of one feature is appended
ParContained(w) ==
    /\ pc[w] = "contained"
    /\ core_queue' = [core_queue EXCEPT !.coord_swaps =
                          @ \o coord_swap_records(<<ParFeature(w)>>, Coord(new_coords))]
    /\ IF ParLast(w)
       THEN /\ trimmer' = [trimmer EXCEPT ![w].i = @ + 1]
            /\ pc' = [pc EXCEPT ![w] = "walk"]
            /\ hist' = ParStepped(w, hist)
       ELSE /\ hist' = ParStepped(w, [hist EXCEPT !.k[w] = @ + 1])
            /\ UNCHANGED <<trimmer, pc>>
    /\ UNCHANGED <<features, pieces, trees>>
    /\ UNCHANGED ParRest

\* the is_downstream branch on the piece at the border: the piece_swap record
\* of one feature is appended
ParDownstream(w) ==
    /\ pc[w] = "downstream"
    /\ LET dp == downstream_piece(pieces, trimmer[w], ParPiece(w))
       IN /\ pieces' = dp.pieces
          /\ core_queue' = [core_queue EXCEPT !.piece_swaps =
                                @ \o piece_swap_records(<<ParFeature(w)>>,
                                                        trimmer[w].piece_at_border,
                                                        dp.new_piece)]
          /\ IF ParLast(w)
             THEN /\ trimmer' = [trimmer EXCEPT ![w]._downstream_piece = dp.new_piece,
                                                ![w].i = @ + 1]
                  /\ pc' = [pc EXCEPT ![w] = "walk"]
                  /\ hist' = ParStepped(w, hist)
             ELSE /\ trimmer' = [trimmer EXCEPT ![w]._downstream_piece = dp.new_piece]
                  /\ hist' = ParStepped(w, [hist EXCEPT !.k[w] = @ + 1])
                  /\ UNCHANGED pc
    /\ UNCHANGED <<features, trees>>
    /\ UNCHANGED ParRest

\* the overlaps_downstream branch: downstream_piece(piece), with the commit of
\* mk_new_piece; the pieces mk_new_piece reads and moves are those of the
\* worker's own transcript
ParBorderPiece(w) ==
    /\ pc[w] = "border"
    /\ LET dp == downstream_piece(pieces, trimmer[w], ParPiece(w))
       IN /\ pieces' = dp.pieces
          /\ trimmer' = [trimmer EXCEPT ![w]._downstream_piece = dp.new_piece]
    /\ pc' = [pc EXCEPT ![w] = "border_piece"]
    /\ hist' = ParStepped(w, hist)
    /\ UNCHANGED <<features, core_queue, trees>>
    /\ UNCHANGED ParRest

\* self.core_queue.execute_so_far(): the records of both workers are applied
ParBorderFlush(w) ==
    /\ pc[w] = "border_piece"
    /\ features' = execute_so_far(features, core_queue).features
    /\ core_queue' = execute_so_far(features, core_queue).core_queue
    /\ pc' = [pc EXCEPT ![w] = "border_assert"]
    /\ hist' = ParStepped(w, hist)
    /\ UNCHANGED <<pieces, trees, trimmer>>
    /\ UNCHANGED ParRest

\* a step of set_status_downstream_border ended in an error: the call is over
ParRaised(w, error) ==
    /\ pc' = [pc EXCEPT ![w] = "failed"]
    /\ trimmer' = [trimmer EXCEPT ![w].i = @ + 1]
    /\ hist' = ParStepped(w, [hist EXCEPT !.outcome[w] = error])

\* set_status_downstream_border for one feature of the group:
\* assert old_piece in template_feature.transcribed_pieces
ParBorderAssert(w) ==
    /\ pc[w] = "border_assert"
    /\ IF trimmer[w].piece_at_border \in Range(features[ParFeature(w)].transcribed_pieces)
       THEN /\ pc' = [pc EXCEPT ![w] = "border_swap"]
            /\ hist' = ParStepped(w, hist)
            /\ UNCHANGED trimmer
       ELSE ParRaised(w, "AssertionError")
    /\ UNCHANGED <<features, pieces, core_queue, trees>>
    /\ UNCHANGED ParRest

\* downstream_pieces = swap_list_item(...) on the list as it is now; index()
\* raises ValueError when the old piece has left the list since the assertion
ParBorderSwapList(w) ==
    /\ pc[w] = "border_swap"
    /\ IF trimmer[w].piece_at_border \in Range(features[ParFeature(w)].transcribed_pieces)
       THEN /\ hist' = ParStepped(w, [hist EXCEPT !.downstream_pieces[w] =
                            swap_list_item(features[ParFeature(w)].transcribed_pieces,
                                           trimmer[w]._downstream_piece,
                                           trimmer[w].piece_at_border)])
            /\ pc' = [pc EXCEPT ![w] = "border_new"]
            /\ UNCHANGED trimmer
       ELSE ParRaised(w, "ValueError")
    /\ UNCHANGED <<features, pieces, core_queue, trees>>
    /\ UNCHANGED ParRest

\* downstream = self.new_handled_data(template_feature, ...): the row is made
\* from the template as it is now and attached to its pieces
ParBorderNew(w) ==
    /\ pc[w] = "border_new"
    /\ features' = Append(features,
                          downstream_row(features[ParFeature(w)], Coord(new_coords),
                                         hist.old_coordinate[w], is_plus_strand,
                                         hist.downstream_pieces[w]))
    /\ trimmer' = [trimmer EXCEPT ![w].downstream = Len(features) + 1]
    /\ pc' = [pc EXCEPT ![w] = "border_load"]
    /\ hist' = ParStepped(w, hist)
    /\ UNCHANGED <<pieces, core_queue, trees>>
    /\ UNCHANGED ParRest

\* downstream.load_to_intervaltree(trees); a ValueError leaves the row made
ParBorderLoad(w) ==
    /\ pc[w] = "border_load"
    /\ LET loaded == load_to_intervaltree(trees, features, trimmer[w].downstream)
       IN /\ trees' = loaded.trees
          /\ IF loaded.error = "none"
             THEN /\ pc' = [pc EXCEPT ![w] = "truncate_end"]
                  /\ hist' = ParStepped(w, hist)
                  /\ UNCHANGED trimmer
             ELSE ParRaised(w, loaded.error)
    /\ UNCHANGED <<features, pieces, core_queue>>
    /\ UNCHANGED ParRest

\* template_feature.end = down_at
ParTruncateEnd(w) ==
    /\ pc[w] = "truncate_end"
    /\ features' = [features EXCEPT ![ParFeature(w)].end =
                        down_at(Coord(new_coords), is_plus_strand)]
    /\ pc' = [pc EXCEPT ![w] = "truncate_flag"]
    /\ hist' = ParStepped(w, hist)
    /\ UNCHANGED <<pieces, core_queue, trees, trimmer>>
    /\ UNCHANGED ParRest

\* template_feature.end_is_biological_end = False
ParTruncateFlag(w) ==
    /\ pc[w] = "truncate_flag"
    /\ features' = [features EXCEPT ![ParFeature(w)].end_is_biological_end = FALSE]
    /\ pc' = [pc EXCEPT ![w] = "truncate_coordinate"]
    /\ hist' = ParStepped(w, hist)
    /\ UNCHANGED <<pieces, core_queue, trees, trimmer>>
    /\ UNCHANGED ParRest

\* template_feature.coordinate = new_coords
ParTruncateCoordinate(w) ==
    /\ pc[w] = "truncate_coordinate"
    /\ features' = [features EXCEPT ![ParFeature(w)].coordinate = new_coords]
    /\ pc' = [pc EXCEPT ![w] = "border_commit"]
    /\ hist' = ParStepped(w, hist)
    /\ UNCHANGED <<pieces, core_queue, trees, trimmer>>
    /\ UNCHANGED ParRest

\* session.add_all, session.commit(); the next feature of the group, or the
\* next iteration of the walk
ParBorderCommit(w) ==
    /\ pc[w] = "border_commit"
    /\ IF ParLast(w)
       THEN /\ trimmer' = [trimmer EXCEPT ![w].i = @ + 1]
            /\ pc' = [pc EXCEPT ![w] = "walk"]
            /\ hist' = ParStepped(w, hist)
       ELSE /\ pc' = [pc EXCEPT ![w] = "border_assert"]
            /\ hist' = ParStepped(w, [hist EXCEPT !.k[w] = @ + 1])
            /\ UNCHANGED trimmer
    /\ UNCHANGED <<features, pieces, core_queue, trees>>
    /\ UNCHANGED ParRest

\* a worker's walk is over
ParWalkEnd(w) ==
    /\ pc[w] = "walk"
    /\ trimmer[w].i > Len(trimmer[w].walk)
    /\ IF ~trimmer[w].seen_one_overlap
       THEN /\ hist' = [hist EXCEPT !.outcome[w] = "NoFeaturesInSliceError"]
            /\ pc' = [pc EXCEPT ![w] = "except"]
            /\ UNCHANGED trimmer
       ELSE /\ hist' = [hist EXCEPT !.outcome[w] = "returned"]
            /\ pc' = [pc EXCEPT ![w] = "returned"]
            /\ trimmer' = [trimmer EXCEPT ![w]._downstream_piece = None]
    /\ UNCHANGED <<features, pieces, core_queue, trees>>
    /\ UNCHANGED ParRest

\* the except branch of a worker: the double check of its transcript
ParDoubleCheck(w) ==
    /\ pc[w] = "except"
    /\ IF double_check(features, pieces, TranscriptOf(w), Coord(new_coords),
                       is_plus_strand)
       THEN /\ pc' = [pc EXCEPT ![w] = "skipped"]
            /\ UNCHANGED hist
       ELSE /\ pc' = [pc EXCEPT ![w] = "assert_failed"]
            /\ hist' = [hist EXCEPT !.outcome[w] = "AssertionError"]
    /\ UNCHANGED <<features, pieces, core_queue, trees, trimmer>>
    /\ UNCHANGED ParRest

\* both workers are through: the caller applies what is left in the queue
ParFlush ==
    /\ pc["caller"] = "idle"
    /\ \A w \in Trimmers : pc[w] \in {"returned", "skipped", "assert_failed", "failed"}
    /\ features' = execute_so_far(features, core_queue).features
    /\ core_queue' = execute_so_far(features, core_queue).core_queue
    /\ pc' = [pc EXCEPT !["caller"] = "flushed"]
    /\ UNCHANGED <<pieces, trees, trimmer, hist>>
    /\ UNCHANGED ParRest

ParNext ==
    \/ \E w \in Trimmers :
        \/ ParEnter(w)
        \/ ParWalkStep(w)
        \/ ParInterp(w)
        \/ ParBranch(w)
        \/ ParContained(w)
        \/ ParDownstream(w)
        \/ ParBorderPiece(w)
        \/ ParBorderFlush(w)
        \/ ParBorderAssert(w)
        \/ ParBorderSwapList(w)
        \/ ParBorderNew(w)
        \/ ParBorderLoad(w)
        \/ ParTruncateEnd(w)
        \/ ParTruncateFlag(w)
        \/ ParTruncateCoordinate(w)
        \/ ParBorderCommit(w)
        \/ ParWalkEnd(w)
        \/ ParDoubleCheck(w)
    \/ ParFlush

SpecPar == ParInit /\ [][ParNext]_vars

\* the loop of modify4new_slice run to its end, or to the first error
RECURSIVE walk_all(_, _, _)
walk_all(r, c, plus) ==
    IF r.error # "none" \/ r.trimmer.i > Len(r.trimmer.walk) THEN r
    ELSE walk_all(loop_body(r.features, r.pieces, r.core_queue, r.trees, r.trimmer,
                            c, plus), c, plus)

\* modify4new_slice as one operation on st = [features, pieces, core_queue, trees]
modify4new_slice(st, t, c, plus) ==
    LET tm == [NewTrimmer(t) EXCEPT
                  !.walk = transition_5p_to_3p(st.features, st.pieces, t)]
        r == walk_all([features |-> st.features, pieces |-> st.pieces,
                       core_queue |-> st.core_queue, trees |-> st.trees,
                       trimmer |-> tm, error |-> "none", branch |-> "none"], c, plus)
    IN [features |-> r.features, pieces |-> r.pieces, core_queue |-> r.core_queue,
        trees |-> r.trees,
        outcome |-> IF r.error # "none" THEN r.error
                    ELSE IF r.trimmer.seen_one_overlap THEN "returned"
                    ELSE "NoFeaturesInSliceError"]

\* the body of the loop of modify4slice for transcript t: modify4new_slice, and
\* the double check after NoFeaturesInSliceError; the outcome is appended to
\* st.outcome
trim_transcript(st, t, c, plus) ==
    LET s1 == modify4new_slice(st, t, c, plus)
        outcome ==
            IF /\ s1.outcome = "NoFeaturesInSliceError"
               /\ ~double_check(s1.features, s1.pieces, t, c, plus)
            THEN "AssertionError" ELSE s1.outcome
    IN [features |-> s1.features, pieces |-> s1.pieces,
        core_queue |-> s1.core_queue, trees |-> s1.trees,
        outcome |-> Append(st.outcome, outcome), error |-> "none"]

\* the loop of modify4slice from transcript t on; an AssertionError or a
\* ValueError ends the loop
RECURSIVE modify4slice(_, _, _, _, _)
modify4slice(st, t, n, c, plus) ==
    IF t > n THEN st
    ELSE LET done == trim_transcript(st, t, c, plus)
             outcome == done.outcome[Len(done.outcome)]
         IN IF outcome \in {"returned", "NoFeaturesInSliceError"}
            THEN modify4slice(done, t + 1, n, c, plus)
            ELSE [done EXCEPT !.error = outcome]

\* the two transcripts trimmed one after the other by modify4slice, and the
\* queue flushed by the caller when modify4slice has returned
one_after_the_other(fs, ps, c, plus) ==
    LET s0 == [features |-> fs, pieces |-> ps, core_queue |-> EmptyQueue,
               trees |-> CallerTrees(fs, ps), outcome |-> <<>>, error |-> "none"]
        s2 == modify4slice(s0, 1, 2, c, plus)
    IN [features |-> IF s2.error = "none"
                     THEN execute_so_far(s2.features, s2.core_queue).features
                     ELSE s2.features,
        pieces |-> s2.pieces,
        outcome |-> s2.outcome,
        error |-> s2.error]

\* the work of the two workers done in turn: the first transcript trimmed and
\* double-checked to its end, then the second, whatever the first came to, and
\* the queue flushed by the caller
each_in_turn(fs, ps, c, plus) ==
    LET s0 == [features |-> fs, pieces |-> ps, core_queue |-> EmptyQueue,
               trees |-> CallerTrees(fs, ps), outcome |-> <<>>, error |-> "none"]
        s2 == trim_transcript(trim_transcript(s0, 1, c, plus), 2, c, plus)
    IN [features |-> execute_so_far(s2.features, s2.core_queue).features,
        pieces |-> s2.pieces,
        outcome |-> s2.outcome]

\* a feature row with its pieces named by transcript and position, not by id
FeatureView(fs, ps, f) ==
    [fs[f] EXCEPT !.transcribed_pieces =
        [i \in DOMAIN fs[f].transcribed_pieces |->
            ps[fs[f].transcribed_pieces[i]]]]

\* features and pieces up to the ids of the rows: every feature view with the
\* number of features that have it, and every piece row with its number
View(fs, ps) ==
    [features |->
        { <<FeatureView(fs, ps, f),
            Cardinality({ g \in DOMAIN fs : FeatureView(fs, ps, g) = FeatureView(fs, ps, f) })>> :
          f \in DOMAIN fs },
     pieces |->
        { <<ps[p], Cardinality({ q \in DOMAIN ps : ps[q] = ps[p] })>> : p \in DOMAIN ps }]

\* what modify4slice and the flush make of the super locus the workers began with
Sequential ==
    one_after_the_other(hist.pre_features, hist.pre_pieces, Slice, is_plus_strand)

\* the final state equals the outcome of modify4slice and the flush
SameAsSequential ==
    /\ View(features, pieces) = View(Sequential.features, Sequential.pieces)
    /\ Len(Sequential.outcome) = 2
    /\ \A w \in Trimmers : hist.outcome[w] = Sequential.outcome[TranscriptOf(w)]

ParDone == pc["caller"] = "flushed"

\* no feature is attached to pieces of both transcripts
NoSharedFeature ==
    \A f \in DOMAIN hist.pre_features :
        \A p, q \in Range(hist.pre_features[f].transcribed_pieces) :
            hist.pre_pieces[p].transcribed = hist.pre_pieces[q].transcribed

\* C19 as stated: whatever the two transcripts are, every interleaving of the two
\* workers' steps ends, after the flush, in the features, pieces and applied
\* swaps of trimming the two transcripts one after the other
C19_AsClaimed == ParDone => SameAsSequential

\* what the two workers make of the super locus when they run in turn
InTurn ==
    each_in_turn(hist.pre_features, hist.pre_pieces, Slice, is_plus_strand)

\* the final state equals the outcome of the two workers run in turn
SameAsInTurn ==
    /\ View(features, pieces) = View(InTurn.features, InTurn.pieces)
    /\ \A w \in Trimmers : hist.outcome[w] = InTurn.outcome[TranscriptOf(w)]

\* every transcript modify4slice came to has the outcome its worker had
SequentialOutcomesKept ==
    \A w \in Trimmers :
        TranscriptOf(w) <= Len(Sequential.outcome) =>
            hist.outcome[w] = Sequential.outcome[TranscriptOf(w)]

\* C19: when no feature is attached to pieces of both transcripts, every
\* interleaving of the two workers' steps (a step is one read or one write of
\* a row, one queue append, one flush, one commit or the double check) ends,
\* after the flush, in the features, pieces, applied swaps and outcomes of the
\* two transcripts trimmed in turn, up to the ids of the rows created on the
\* way.  That is the result of modify4slice and the flush whenever
\* modify4slice raises nothing; the one error it raises is the AssertionError
\* of the double check, and then every transcript it came to has the outcome
\* its worker had, while a transcript it did not come to is trimmed by its
\* worker all the same.
C19_DisjointTranscripts ==
    (ParDone /\ NoSharedFeature) =>
        /\ SameAsInTurn
        /\ SequentialOutcomesKept
        /\ (Sequential.error = "none" => SameAsSequential)
        /\ Sequential.error \in {"none", "AssertionError"}

\* both workers split their transcript at the border, one of them stepping
\* while the other was in the middle of its walk
C19_Witness ==
    /\ ParDone
    /\ NoSharedFeature
    /\ hist.interleaved
    /\ \A w \in Trimmers : hist.outcome[w] = "returned"
    /\ Len(pieces) = Len(hist.pre_pieces) + 2

----------------------------------------------------------------------------
(* SuperLocusHandler.load_to_intervaltree: the features of a super locus are
   loaded one by one into the trees *)

\* the coordinates a loaded feature may lie on: two different sequences
LoadCoords == { OriginalCoords.id } \cup { c.id : c \in OtherSeqSlices }

\* any start and end, inverted and empty ranges included
LoadPos == (-1)..GridMax

\* positions of the features of the three-piece super loci
InterleavedPos == 1..2

\* two transcripts of one piece each; the first feature may belong to both
TwoPieceLoadLoci ==
    { [features |-> << Feature(x[1], x[2], plus1, c1, tp),
                       Feature(y[1], y[2], plus2, c2, <<2>>) >>,
       pieces |-> << TranscribedPiece(1, 0), TranscribedPiece(2, 0) >>,
       transcripts |-> 2] :
        x \in LoadPos \X LoadPos, y \in LoadPos \X LoadPos,
        plus1 \in BOOLEAN, plus2 \in BOOLEAN,
        c1 \in LoadCoords, c2 \in LoadCoords, tp \in { <<1>>, <<1, 2>> } }

\* the second piece of the first transcript was made after the piece of the
\* second transcript: one feature on each of the three pieces
InterleavedLoadLoci ==
    { [features |-> << Feature(x[1], x[2], plus, OriginalCoords.id, <<1>>),
                       Feature(y[1], y[2], plus, OriginalCoords.id, <<2>>),
                       Feature(z[1], z[2], plus, OriginalCoords.id, <<3>>) >>,
       pieces |-> << TranscribedPiece(1, 0), TranscribedPiece(2, 0),
                     TranscribedPiece(1, 1) >>,
       transcripts |-> 2] :
        x \in InterleavedPos \X InterleavedPos, y \in InterleavedPos \X InterleavedPos,
        z \in InterleavedPos \X InterleavedPos, plus \in BOOLEAN }

LoadLoci == TwoPieceLoadLoci \cup InterleavedLoadLoci

LoadInit ==
    /\ \E locus \in LoadLoci :
        /\ features = locus.features
        /\ pieces = locus.pieces
        /\ transcripts = locus.transcripts
    /\ trees = {}
    /\ hist = [todo |-> <<>>, next |-> 1, error |-> "none"]
    /\ pc = "idle"
    /\ trimmer = NewTrimmer(1)
    /\ core_queue = EmptyQueue
    /\ new_coords = None
    /\ is_plus_strand = TRUE
    /\ transcribed = 1
    /\ calls = 0
    /\ last_call = NoCall
    /\ trees_is_none = FALSE

LoadRest == <<features, pieces, transcripts, trimmer, core_queue, new_coords,
              is_plus_strand, transcribed, calls, last_call, trees_is_none>>

\* the handlers are made and the features of the super locus are listed
LoadEnter ==
    /\ pc = "idle"
    /\ hist' = [hist EXCEPT !.todo = super_locus_features(features, pieces, 1)]
    /\ pc' = "loading"
    /\ UNCHANGED trees
    /\ UNCHANGED LoadRest

\* feature.load_to_intervaltree(trees) for the next feature of the list; a
\* ValueError leaves the loop
LoadFeature ==
    /\ pc = "loading"
    /\ hist.next <= Len(hist.todo)
    /\ LET r == load_to_intervaltree(trees, features, hist.todo[hist.next])
       IN /\ trees' = r.trees
          /\ hist' = [hist EXCEPT !.next = @ + 1, !.error = r.error]
          /\ pc' = IF r.error = "none" THEN "loading" ELSE "raised"
    /\ UNCHANGED LoadRest

\* every feature is loaded
LoadReturn ==
    /\ pc = "loading"
    /\ hist.next > Len(hist.todo)
    /\ pc' = "returned"
    /\ UNCHANGED <<trees, hist>>
    /\ UNCHANGED LoadRest

LoadNext == LoadEnter \/ LoadFeature \/ LoadReturn

SpecLoad == LoadInit /\ [][LoadNext]_vars

\* load_to_intervaltree was called for feature f
LoadCalled(f) == \E k \in 1..(hist.next - 1) : hist.todo[k] = f

\* the last call of load_to_intervaltree was for feature f
LoadCalledLast(f) == hist.next > 1 /\ hist.todo[hist.next - 1] = f

\* the strand-adjusted bounds of a feature row
LoadStart(d) == IF d.is_plus_strand THEN d.start ELSE d.end + 1

LoadEnd(d) == IF d.is_plus_strand THEN d.end ELSE d.start + 1

EntriesOf(f) == { e \in trees : e.feature = f }

\* C20: load_to_intervaltree called for a feature with py_start >= py_end raises
\* ValueError, ends the loading and adds no entry for the feature; called for
\* any other feature it leaves exactly one entry for it, under the seqid of the
\* feature's coordinate, [start, end) on the plus strand and [end + 1, start + 1)
\* on the minus strand, however often it is called; a feature it was not
\* called for has no entry
C20_RejectsNullIntervals ==
    \A f \in DOMAIN features :
        LET d == features[f]
        IN /\ ~LoadCalled(f) => EntriesOf(f) = {}
           /\ (LoadCalled(f) /\ LoadStart(d) >= LoadEnd(d)) =>
                /\ EntriesOf(f) = {}
                /\ pc = "raised"
                /\ hist.error = "ValueError"
                /\ LoadCalledLast(f)
           /\ (LoadCalled(f) /\ LoadStart(d) < LoadEnd(d)) =>
                /\ EntriesOf(f) =
                      { [seqid |-> Coord(d.coordinate).seqid,
                         begin |-> IF d.is_plus_strand THEN d.start ELSE d.end + 1,
                         end |-> IF d.is_plus_strand THEN d.end ELSE d.start + 1,
                         feature |-> f] }
                /\ (LoadCalledLast(f) => hist.error = "none")

\* a minus-strand feature was loaded twice and has one entry; the feature
\* called next, which lies on another sequence, was rejected
C20_Witness ==
    /\ pc = "raised"
    /\ hist.next = 4
    /\ hist.todo = <<1, 1, 2>>
    /\ ~features[1].is_plus_strand
    /\ Cardinality(EntriesOf(1)) = 1
    /\ Coord(features[1].coordinate).seqid # Coord(features[2].coordinate).seqid
    /\ EntriesOf(2) = {}

----------------------------------------------------------------------------
(* Claims on the branches of modify4new_slice, checked under Spec *)

\* the strand-adjusted interval of a feature row is zero-length or inverted
NullInterval(f) ==
    feature_py_start(f, f.is_plus_strand) >= feature_py_end(f, f.is_plus_strand)

\* a record of the queue names feature f
Queued(q, f) ==
    \/ \E k \in DOMAIN q.coord_swaps : q.coord_swaps[k].feat_id = f
    \/ \E k \in DOMAIN q.piece_swaps : q.piece_swaps[k].feat_id = f

\* C21 as stated: when the transcript has a feature on the slice's sequence and
\* strand whose strand-adjusted interval is zero-length or inverted, the call
\* does not return normally, the feature keeps its row, no new record of the
\* queue names it and no feature is created
C21_AsClaimed ==
    CallEnded =>
        \A f \in PreFeaturesOfTranscript :
            (/\ NullInterval(hist.pre_features[f])
             /\ ~is_detached(hist.pre_features[f], Slice, is_plus_strand)) =>
                /\ pc # "returned"
                /\ features[f] = execute_so_far(hist.pre_features, hist.pre_queue).features[f]
                /\ (Queued(core_queue, f) => Queued(hist.pre_queue, f))
                /\ Len(features) = Len(hist.pre_features)

\* the step handles the next group of the walk and the group takes branch b
StepOf(b) ==
    /\ pc = "walk"
    /\ Len(hist'.classes) = Len(hist.classes) + 1
    /\ hist'.classes[Len(hist'.classes)] = b

\* the features of the group the next step of the walk handles
NextGroup == trimmer.walk[trimmer.i].features

\* the step runs execute_so_far: the caller's flush or a border-crossing group
FlushStep ==
    \/ pc = "idle" /\ pc' = "idle" /\ core_queue # EmptyQueue /\ core_queue' = EmptyQueue
    \/ StepOf("overlaps_downstream")

\* C22: a step for a group classified contained appends one coord_swap record
\* {feat_id, coordinate_id_new = slice id} per feature of the group, in the
\* order of the group, and changes no feature row, piece, piece-swap record or
\* index entry; and a feature's coordinate changes only in a step that runs
\* execute_so_far
C22_ContainedOnlyEnqueues ==
    [][ /\ StepOf("contained") =>
            /\ core_queue'.coord_swaps =
                  core_queue.coord_swaps
                  \o [k \in DOMAIN NextGroup |->
                        [feat_id |-> NextGroup[k], coordinate_id_new |-> new_coords]]
            /\ core_queue'.piece_swaps = core_queue.piece_swaps
            /\ features' = features
            /\ pieces' = pieces
            /\ trees' = trees
            /\ pc' = "walk"
        /\ (\E f \in DOMAIN features : features'[f].coordinate # features[f].coordinate)
              => FlushStep
      ]_vars

\* a group of two contained features has just been handled: two records are
\* queued and the features still carry their old coordinates
C22_Witness ==
    /\ pc = "walk"
    /\ hist.classes # <<>>
    /\ hist.classes[Len(hist.classes)] = "contained"
    /\ Len(trimmer.walk[trimmer.i - 1].features) = 2
    /\ Len(core_queue.coord_swaps) >= 2
    /\ \A f \in Range(trimmer.walk[trimmer.i - 1].features) :
        /\ features[f].coordinate # new_coords
        /\ \E k \in DOMAIN core_queue.coord_swaps :
              core_queue.coord_swaps[k] = [feat_id |-> f, coordinate_id_new |-> new_coords]

----------------------------------------------------------------------------
(* One modify4new_slice call with the border-crossing branch taken statement
   by statement: downstream_piece, execute_so_far, then one
   set_status_downstream_border per feature of the group *)

BorderInit ==
    /\ \E locus \in InitLoci :
        /\ features = locus.features
        /\ pieces = locus.pieces
        /\ transcripts = locus.transcripts
        /\ trees = CallerTrees(locus.features, locus.pieces)
        /\ hist = [pre_features |-> locus.features, pre_pieces |-> locus.pieces,
                   classes |-> <<>>, outcome |-> "none", old_coordinate |-> None,
                   k |-> 1, flushed |-> 0, at_group |-> <<>>]
    /\ \E c \in Slices : new_coords = c.id
    /\ is_plus_strand \in BOOLEAN
    /\ core_queue = EmptyQueue
    /\ pc = "idle"
    /\ trimmer = NewTrimmer(1)
    /\ transcribed = 1
    /\ calls = 1
    /\ last_call = NoCall
    /\ trees_is_none \in BOOLEAN

BorderRest ==
    <<transcripts, new_coords, is_plus_strand, transcribed, calls, last_call,
      trees_is_none>>

\* the branch the next group of the walk takes
NextBranch ==
    Branch(features[trimmer.walk[trimmer.i].features[1]], Coord(new_coords),
           is_plus_strand)

\* modify4new_slice is entered: the walk is materialised
BorderEnter ==
    /\ pc = "idle"
    /\ trimmer' = [trimmer EXCEPT
                      !.walk = transition_5p_to_3p(features, pieces, trimmer.transcript)]
    /\ hist' = [hist EXCEPT !.outcome = "running"]
    /\ pc' = "walk"
    /\ UNCHANGED <<features, pieces, core_queue, trees>>
    /\ UNCHANGED BorderRest

\* a group that does not cross the border is handled
BorderOtherGroup ==
    /\ pc = "walk"
    /\ trimmer.i <= Len(trimmer.walk)
    /\ NextBranch # "overlaps_downstream"
    /\ LET r == loop_body(features, pieces, core_queue, LocalTrees, trimmer,
                          Coord(new_coords), is_plus_strand)
       IN /\ features' = r.features
          /\ pieces' = r.pieces
          /\ core_queue' = r.core_queue
          /\ trees' = IF trees_is_none THEN trees ELSE r.trees
          /\ trimmer' = IF trees_is_none THEN [r.trimmer EXCEPT !.trees = r.trees]
                         ELSE r.trimmer
          /\ hist' = [hist EXCEPT !.classes = Append(@, r.branch),
                                  !.outcome = IF r.error = "none" THEN @ ELSE r.error]
          /\ pc' = IF r.error = "none" THEN "walk" ELSE "failed"
    /\ UNCHANGED BorderRest

\* the border-crossing branch is entered: old_coordinate was read at the top of
\* the loop; seen_one_overlap, piece_at_border, then downstream_piece(piece)
BorderPiece ==
    /\ pc = "walk"
    /\ trimmer.i <= Len(trimmer.walk)
    /\ NextBranch = "overlaps_downstream"
    /\ LET piece == trimmer.walk[trimmer.i].piece
           dp == downstream_piece(pieces, trimmer, piece)
       IN /\ pieces' = dp.pieces
          /\ trimmer' = [trimmer EXCEPT !.seen_one_overlap = TRUE,
                                        !.piece_at_border = piece,
                                        !._downstream_piece = dp.new_piece]
    /\ hist' = [hist EXCEPT
                    !.old_coordinate =
                        features[trimmer.walk[trimmer.i].features[1]].coordinate,
                    !.k = 1,
                    !.at_group = features]
    /\ pc' = "border_piece"
    /\ UNCHANGED <<features, core_queue, trees>>
    /\ UNCHANGED BorderRest

\* faulty variant: the queue is left as it is
BorderFlush_skip ==
    /\ pc = "border_piece"
    /\ pc' = "border_split"
    /\ UNCHANGED <<features, core_queue, pieces, trees, trimmer, hist>>
    /\ UNCHANGED BorderRest

\* self.core_queue.execute_so_far()
BorderFlush ==
    /\ pc = "border_piece"
    /\ features' = execute_so_far(features, core_queue).features
    /\ core_queue' = execute_so_far(features, core_queue).core_queue
    /\ hist' = [hist EXCEPT !.flushed = @ + Len(core_queue.coord_swaps)
                                          + Len(core_queue.piece_swaps)]
    /\ pc' = "border_split"
    /\ UNCHANGED <<pieces, trees, trimmer>>
    /\ UNCHANGED BorderRest

\* set_status_downstream_border for the next feature of the group; after the
\* last one the loop of the walk goes on
BorderSplit ==
    /\ pc = "border_split"
    /\ LET group == trimmer.walk[trimmer.i].features
           st == set_status_downstream_border(
                    [features |-> features, trees |-> LocalTrees, error |-> "none"],
                    Coord(new_coords), hist.old_coordinate, is_plus_strand,
                    group[hist.k], trimmer._downstream_piece, trimmer.piece_at_border)
           last == hist.k = Len(group)
           tm == IF trees_is_none THEN [trimmer EXCEPT !.trees = st.trees] ELSE trimmer
       IN /\ features' = st.features
          /\ trees' = IF trees_is_none THEN trees ELSE st.trees
          /\ IF st.error # "none"
             THEN /\ pc' = "failed"
                  /\ trimmer' = [tm EXCEPT !.i = @ + 1]
                  /\ hist' = [hist EXCEPT !.classes = Append(@, "overlaps_downstream"),
                                          !.outcome = st.error]
             ELSE IF last
             THEN /\ pc' = "walk"
                  /\ trimmer' = [tm EXCEPT !.i = @ + 1]
                  /\ hist' = [hist EXCEPT !.classes = Append(@, "overlaps_downstream")]
             ELSE /\ pc' = "border_split"
                  /\ trimmer' = tm
                  /\ hist' = [hist EXCEPT !.k = @ + 1]
    /\ UNCHANGED <<pieces, core_queue>>
    /\ UNCHANGED BorderRest

\* faulty variant: the loop looks for one group more than the walk has
BorderWalkEnd_one_more ==
    /\ pc = "walk"
    /\ trimmer.i > Len(trimmer.walk) + 1
    /\ IF ~trimmer.seen_one_overlap
       THEN /\ hist' = [hist EXCEPT !.outcome = "NoFeaturesInSliceError"]
            /\ pc' = "except"
            /\ UNCHANGED trimmer
       ELSE /\ hist' = [hist EXCEPT !.outcome = "returned"]
            /\ pc' = "returned"
            /\ trimmer' = [trimmer EXCEPT !._downstream_piece = None]
    /\ UNCHANGED <<features, pieces, core_queue, trees>>
    /\ UNCHANGED BorderRest

\* the walk is over: NoFeaturesInSliceError, or the memoized piece is reset
BorderWalkEnd ==
    /\ pc = "walk"
    /\ trimmer.i > Len(trimmer.walk)
    /\ IF ~trimmer.seen_one_overlap
       THEN /\ hist' = [hist EXCEPT !.outcome = "NoFeaturesInSliceError"]
            /\ pc' = "except"
            /\ UNCHANGED trimmer
       ELSE /\ hist' = [hist EXCEPT !.outcome = "returned"]
            /\ pc' = "returned"
            /\ trimmer' = [trimmer EXCEPT !._downstream_piece = None]
    /\ UNCHANGED <<features, pieces, core_queue, trees>>
    /\ UNCHANGED BorderRest

BorderNext ==
    \/ BorderEnter
    \/ BorderOtherGroup
    \/ BorderPiece
    \/ BorderFlush
    \/ BorderSplit
    \/ BorderWalkEnd

SpecBorder == BorderInit /\ [][BorderNext]_vars

\* every piece-swap record of the queue names pieces that exist
SwapsNameCommittedPieces ==
    \A k \in DOMAIN core_queue.piece_swaps :
        /\ core_queue.piece_swaps[k].piece_id_new \in DOMAIN pieces
        /\ core_queue.piece_swaps[k].piece_id_old \in DOMAIN pieces

\* the step takes records out of the queue
QueueShrinks ==
    \/ Len(core_queue'.coord_swaps) < Len(core_queue.coord_swaps)
    \/ Len(core_queue'.piece_swaps) < Len(core_queue.piece_swaps)

\* C23: within a modify4new_slice call records leave the queue only in the
\* flush of a border-crossing group; when that flush runs the new downstream
\* piece is already among the pieces and no feature of the group has been
\* truncated or copied; the group's features are split only after the flush,
\* with the queue empty; and every piece-swap record in the queue names a
\* new piece that exists
C23_FlushAtBorderInOrder ==
    /\ [][QueueShrinks => (pc = "border_piece" /\ pc' = "border_split")]_vars
    /\ [](pc = "border_piece" =>
            /\ trimmer._downstream_piece \in DOMAIN pieces
            /\ pieces[trimmer._downstream_piece].transcribed = trimmer.transcript
            /\ features = hist.at_group)
    /\ [](pc = "border_split" => core_queue = EmptyQueue)
    /\ [][(Len(features') > Len(features)) => pc = "border_split"]_vars
    /\ []SwapsNameCommittedPieces

\* a call has queued a coordinate swap, then created the piece, flushed the
\* record and split the border feature, and then queued a piece swap to the
\* new piece for a downstream group
C23_Witness ==
    /\ pc = "walk"
    /\ hist.classes = <<"contained", "overlaps_downstream", "downstream">>
    /\ hist.flushed = 1
    /\ Len(pieces) = Len(hist.pre_pieces) + 1
    /\ Len(core_queue.piece_swaps) = 1
    /\ core_queue.piece_swaps[1].piece_id_new = Len(pieces)

\* the last group so far that took the overlaps_downstream branch, or 0
LastBorder ==
    IF BorderGroups = {} THEN 0
    ELSE CHOOSE j \in BorderGroups : \A k \in BorderGroups : k <= j

\* the coord_swap records enqueued by the groups j..n
RECURSIVE CoordSwapsOf(_, _)
CoordSwapsOf(j, n) ==
    IF j > n THEN <<>>
    ELSE (IF hist.classes[j] = "contained"
          THEN [k \in DOMAIN trimmer.walk[j].features |->
                    [feat_id |-> trimmer.walk[j].features[k],
                     coordinate_id_new |-> new_coords]]
          ELSE <<>>)
         \o CoordSwapsOf(j + 1, n)

\* the piece_swap records enqueued by the groups j..n that come after a border
\* group on piece old_piece
RECURSIVE PieceSwapsOf(_, _, _)
PieceSwapsOf(j, n, old_piece) ==
    IF j > n THEN <<>>
    ELSE (IF hist.classes[j] = "downstream" /\ trimmer.walk[j].piece = old_piece
          THEN [k \in DOMAIN trimmer.walk[j].features |->
                    [piece_id_old |-> old_piece, piece_id_new |-> NewPiece,
                     feat_id |-> trimmer.walk[j].features[k]]]
          ELSE <<>>)
         \o PieceSwapsOf(j + 1, n, old_piece)

\* C24 as stated: when modify4new_slice returns normally the batch queue holds
\* no unapplied record
C24_AsClaimed == pc = "returned" => core_queue = EmptyQueue

\* C24 (amended): when modify4new_slice returns normally, the records enqueued
\* before the last border-crossing group have been applied and are gone, and
\* the queue holds exactly the records enqueued after it; after a call without
\* a border-crossing group the queue holds what it held before the call
\* followed by every record of the call
C24_AppliedUpToLastBorder ==
    pc = "returned" =>
        IF LastBorder = 0
        THEN /\ core_queue.coord_swaps =
                    hist.pre_queue.coord_swaps \o CoordSwapsOf(1, Len(hist.classes))
             /\ core_queue.piece_swaps = hist.pre_queue.piece_swaps
             /\ features = hist.pre_features
        ELSE /\ core_queue.coord_swaps = CoordSwapsOf(LastBorder + 1, Len(hist.classes))
             /\ core_queue.piece_swaps =
                    PieceSwapsOf(LastBorder + 1, Len(hist.classes),
                                 trimmer.walk[LastBorder].piece)
             /\ \A j \in 1..(LastBorder - 1) :
                    hist.classes[j] = "contained" =>
                        \A f \in Range(trimmer.walk[j].features) :
                            features[f].coordinate = new_coords

\* a call has returned: the swap of its contained group was applied at the
\* border, the swap of its downstream group is still in the queue
C24_Witness ==
    /\ pc = "returned"
    /\ hist.classes = <<"contained", "overlaps_downstream", "downstream">>
    /\ features[trimmer.walk[1].features[1]].coordinate = new_coords
    /\ core_queue.coord_swaps = <<>>
    /\ Len(core_queue.piece_swaps) = 1

\* the piece of the group the next step of the walk handles
NextPiece == trimmer.walk[trimmer.i].piece

\* one piece-swap record per feature of the next group, from old to new
SwapsOfNextGroup(old, new) ==
    [k \in DOMAIN NextGroup |->
        [piece_id_old |-> old, piece_id_new |-> new, feat_id |-> NextGroup[k]]]

\* C25 as stated: a step for a group classified downstream, after a group of
\* the call crossed the border, appends one piece-swap record per feature of
\* the group, from the group's piece to the new downstream piece, and changes
\* no feature
C25_AsClaimed ==
    [][ (StepOf("downstream") /\ BorderGroups # {}) =>
            /\ core_queue'.piece_swaps =
                  core_queue.piece_swaps
                  \o SwapsOfNextGroup(NextPiece, trimmer._downstream_piece)
            /\ features' = features
      ]_vars

\* C25 (amended): a step for a group classified downstream appends one
\* piece-swap record per feature of the group, from the piece at the border to
\* the new downstream piece, when a group of the call crossed the border on
\* the very piece the group is on, and no record otherwise; it changes no
\* feature, piece, coord_swap record or index entry; and the pieces of an
\* existing feature change only in a step that runs execute_so_far
C25_SwapsOnBorderPiece ==
    [][ /\ StepOf("downstream") =>
            /\ core_queue'.piece_swaps =
                  (IF trimmer.piece_at_border # None /\ NextPiece = trimmer.piece_at_border
                   THEN core_queue.piece_swaps
                        \o SwapsOfNextGroup(trimmer.piece_at_border,
                                            trimmer._downstream_piece)
                   ELSE core_queue.piece_swaps)
            /\ (trimmer.piece_at_border # None =>
                    trimmer._downstream_piece \in DOMAIN pieces)
            /\ core_queue'.coord_swaps = core_queue.coord_swaps
            /\ features' = features
            /\ pieces' = pieces
            /\ trees' = trees
        /\ (\E f \in DOMAIN features :
                features'[f].transcribed_pieces # features[f].transcribed_pieces)
              => FlushStep
      ]_vars

\* a downstream group on the border piece has just been handled after the
\* border group: its record is queued and the feature is still on the old piece
C25_Witness ==
    /\ pc = "walk"
    /\ hist.classes = <<"overlaps_downstream", "downstream">>
    /\ core_queue.piece_swaps =
          <<[piece_id_old |-> trimmer.piece_at_border,
             piece_id_new |-> trimmer._downstream_piece,
             feat_id |-> trimmer.walk[2].features[1]]>>
    /\ trimmer.piece_at_border \in Range(features[trimmer.walk[2].features[1]].transcribed_pieces)
    /\ trimmer._downstream_piece \notin
          Range(features[trimmer.walk[2].features[1]].transcribed_pieces)

\* the step handles the next group of the walk
WalkStepTaken == pc = "walk" /\ Len(hist'.classes) = Len(hist.classes) + 1

\* the step leaves rows, queue and index alone and only moves on in the walk
PureNoOp ==
    /\ features' = features
    /\ pieces' = pieces
    /\ core_queue' = core_queue
    /\ trees' = trees
    /\ trimmer' = [trimmer EXCEPT !.i = @ + 1]
    /\ pc' = "walk"

\* the first feature of the next group is on another sequence or strand than
\* the call
NextDetached ==
    LET f0 == features[NextGroup[1]]
    IN Coord(f0.coordinate).seqid # Slice.seqid \/ f0.is_plus_strand # is_plus_strand

\* C26: a step for a group classified detached, upstream or overlaps_upstream
\* changes no feature, piece, queue record or index entry and leaves
\* seen_one_overlap, piece_at_border and the memoized piece as they are; and a
\* group whose first feature is on another sequence or on the other strand is
\* classified detached, wherever its interval lies
C26_NoOpBranches ==
    [][ /\ (StepOf("detached") \/ StepOf("upstream") \/ StepOf("overlaps_upstream"))
              => PureNoOp
        /\ (WalkStepTaken /\ NextDetached) => (StepOf("detached") /\ PureNoOp)
      ]_vars

\* a group on the other strand whose interval lies inside the slice has just
\* been passed over: nothing has changed and no overlap is counted
C26_Witness ==
    /\ pc = "walk"
    /\ hist.classes = <<"detached">>
    /\ LET f0 == features[trimmer.walk[1].features[1]]
       IN /\ f0.is_plus_strand # is_plus_strand
          /\ Coord(f0.coordinate).seqid = Slice.seqid
          /\ PySet(f0) # {}
          /\ PySet(f0) \subseteq SlicePositions(Slice)
    /\ features = hist.pre_features
    /\ core_queue = hist.pre_queue
    /\ trees = hist.pre_trees
    /\ ~trimmer.seen_one_overlap

\* C27 as stated: whenever a modify4new_slice call has ended, by returning or
\* by raising, the memoized downstream piece of the trimmer is None
C27_AsClaimed == CallEnded => trimmer._downstream_piece = None

\* C27 (amended): the memoized piece is None when a call begins, when it
\* returns normally and when it raises NoFeaturesInSliceError; when it raises a
\* fatal error in or after a border-crossing group the trimmer still names the
\* piece created by the call
C27_ResetOnReturn ==
    /\ (pc = "walk" /\ hist.classes = <<>>) => trimmer._downstream_piece = None
    /\ pc \in {"returned", "except"} => trimmer._downstream_piece = None
    /\ (pc = "failed" /\ BorderGroups # {}) =>
            /\ trimmer._downstream_piece = NewPiece
            /\ NewPiece \in DOMAIN pieces
    /\ CallAlive /\ trimmer._downstream_piece # None =>
            trimmer._downstream_piece = NewPiece

\* a call that split its transcript at the border has returned
C27_Witness ==
    /\ pc = "returned"
    /\ BorderGroups # {}
    /\ Len(pieces) = Len(hist.pre_pieces) + 1
    /\ trimmer._downstream_piece = None

\* the features as the flush of the border-crossing branch leaves them
FlushedNow == execute_so_far(features, core_queue).features

\* the members of the next group that are not on the piece of the group once
\* the queue is flushed
NotOnPiece ==
    { k \in DOMAIN NextGroup :
        NextPiece \notin Range(FlushedNow[NextGroup[k]].transcribed_pieces) }

\* C28: in a border-crossing step set_status_downstream_border raises
\* AssertionError only for a feature that does not list old_piece; that feature
\* keeps its row (end, end_is_biological_end, coordinate), no copy of it is
\* created and the index gets entries only for the copies of the features of
\* the group handled before it; a group with such a feature never gets
\* through, a group without one never raises AssertionError; and the error is
\* caught nowhere: no step follows it
C28_AssertBeforeAnyChange ==
    [][ /\ (StepOf("overlaps_downstream") /\ hist'.outcome = "AssertionError") =>
            /\ pc' = "failed"
            /\ \E k \in NotOnPiece :
                /\ features'[NextGroup[k]] = FlushedNow[NextGroup[k]]
                /\ Len(features') = Len(features) + k - 1
                /\ \A e \in trees' \ trees :
                      e.feature \in (Len(features) + 1)..(Len(features) + k - 1)
                /\ \A j \in (Len(features) + 1)..Len(features') :
                      features'[j].transcribed_pieces
                          # FlushedNow[NextGroup[k]].transcribed_pieces
        /\ (StepOf("overlaps_downstream") /\ NotOnPiece # {}) => pc' = "failed"
        /\ (StepOf("overlaps_downstream") /\ NotOnPiece = {}) =>
                hist'.outcome # "AssertionError"
        /\ pc # "failed"
      ]_vars

\* set_status_downstream_border has raised AssertionError at the border
C28_Witness ==
    /\ pc = "failed"
    /\ hist.outcome = "AssertionError"
    /\ hist.classes[Len(hist.classes)] = "overlaps_downstream"
    /\ trimmer.piece_at_border \notin
          Range(features[trimmer.walk[trimmer.i - 1].features[1]].transcribed_pieces)
    /\ Len(features) = Len(hist.pre_features)
    /\ trees = hist.pre_trees

\* a fatal error was raised in or after a border-crossing group of the call
FailedAfterBorder == pc = "failed" /\ BorderGroups # {}

\* the features the call has created so far
CreatedSoFar == Len(features) - Len(hist.pre_features)

\* C29: after a fatal error in or after a border-crossing group nothing is
\* rolled back: the new piece is there, right after the piece at the border,
\* and the higher pieces of the transcript keep their raised positions; the
\* coordinate swaps enqueued before the flush are applied; every feature split
\* before the failure stays truncated at the cut point, with the slice's
\* coordinates, and its copy stays in the features and in the index the call
\* was given (or made for itself when it was given none); the queue
\* holds no record, and the groups of the walk not yet visited have no feature
\* on the new piece: their reassignment was neither enqueued nor applied
C29_NoRollback ==
    FailedAfterBorder =>
        LET given == hist.pre_pieces[BorderPieces[1]]
            t == trimmer.transcript
        IN /\ Len(pieces) = Len(hist.pre_pieces) + 1
           /\ pieces[NewPiece] = TranscribedPiece(t, given.position + 1)
           /\ \A p \in DOMAIN hist.pre_pieces :
                pieces[p].position =
                    IF /\ hist.pre_pieces[p].transcribed = t
                       /\ hist.pre_pieces[p].position > given.position
                    THEN hist.pre_pieces[p].position + 1
                    ELSE hist.pre_pieces[p].position
           /\ \A j \in DOMAIN hist.classes :
                hist.classes[j] = "contained" =>
                    \A f \in Range(trimmer.walk[j].features) :
                        features[f].coordinate = new_coords
           /\ CreatedSoFar < Len(BorderTemplates)
           /\ \A k \in 1..CreatedSoFar :
                /\ features[BorderTemplates[k]].end = CutPoint
                /\ features[BorderTemplates[k]].coordinate = new_coords
                /\ ~features[BorderTemplates[k]].end_is_biological_end
                /\ features[Created(k)].start = CutPoint
                /\ NewPiece \in Range(features[Created(k)].transcribed_pieces)
                /\ TreeEntry(features, Created(k)) \in LocalTrees
           /\ core_queue = EmptyQueue
           /\ \A j \in (trimmer.i)..Len(trimmer.walk) :
                \A f \in Range(trimmer.walk[j].features) :
                    NewPiece \notin Range(features[f].transcribed_pieces)

\* a fatal error at the border, after a feature was split and a coordinate swap
\* of the call was flushed, and while a later group of the walk was still to be
\* visited
C29_Witness ==
    /\ FailedAfterBorder
    /\ CreatedSoFar >= 1
    /\ \E j \in DOMAIN hist.classes : hist.classes[j] = "contained"
    /\ trimmer.i <= Len(trimmer.walk)

\* the features a step creates
CreatedInStep == (Len(features) + 1)..Len(features')

\* the index entries of the features a step creates
EntriesCreatedInStep ==
    { [seqid |-> Coord(features'[j].coordinate).seqid,
       begin |-> AdjStart(features'[j]),
       end |-> AdjEnd(features'[j]),
       feature |-> j] : j \in CreatedInStep }

\* C30: every step of a call that was given the caller's index leaves the
\* entries of the index in place and adds exactly one entry for each feature
\* it creates, under the seqid of the coordinates the new feature carries
\* (those of its template before the split) and with the new feature's
\* strand-adjusted interval; so a truncated original keeps the entry made
\* before the trim.  A call that was given no index leaves the caller's index
\* as it is and adds the entries to the dict it made for itself
C30_OneEntryPerNewFeature ==
    [][ /\ ~trees_is_none =>
              /\ trees \subseteq trees'
              /\ trees' \ trees = EntriesCreatedInStep
              /\ Cardinality(trees' \ trees) = Len(features') - Len(features)
        /\ trees_is_none => trees' = trees
        /\ (trees_is_none /\ WalkStepTaken) =>
              /\ trimmer.trees \subseteq trimmer'.trees
              /\ trimmer'.trees \ trimmer.trees = EntriesCreatedInStep
        /\ (StepOf("overlaps_downstream") /\ pc' = "walk") =>
              /\ Len(features') = Len(features) + Len(NextGroup)
              /\ \A j \in CreatedInStep :
                    Coord(features'[j].coordinate).seqid
                        = Coord(features[NextGroup[1]].coordinate).seqid
      ]_vars

\* a minus-strand call has split two aligned features: each copy has its one
\* entry, and the entries of the originals still span the pre-trim intervals
C30_Witness ==
    /\ pc = "walk"
    /\ ~is_plus_strand
    /\ ~trees_is_none
    /\ hist.classes = <<"overlaps_downstream">>
    /\ Len(features) = Len(hist.pre_features) + 2
    /\ \A k \in 1..2 :
        /\ Cardinality({ e \in trees : e.feature = Created(k) }) = 1
        /\ { e \in trees : e.feature = BorderTemplates[k] }
              = { TreeEntry(hist.pre_features, BorderTemplates[k]) }
        /\ TreeEntry(features, BorderTemplates[k]) \notin trees

----------------------------------------------------------------------------
(* FeatureVsCoords applied to one feature and one slice, any integers of the
   grid taken as start and end of either *)

\* feature start and end: the grid and one position off it on either side
ClassifyPos == (-1)..(GridMax + 1)

ClassifyInit ==
    /\ \E x \in ClassifyPos \X ClassifyPos, plus \in BOOLEAN :
        features = << Feature(x[1], x[2], plus, OriginalCoords.id, <<1>>) >>
    /\ \E y \in GridPos \X GridPos, seqid \in {1, 2} :
        hist = [slice_coordinates |-> Coordinate(6, seqid, y[1], y[2]),
                branch |-> "none", predicates |-> {}]
    /\ is_plus_strand \in BOOLEAN
    /\ pieces = << TranscribedPiece(1, 0) >>
    /\ transcripts = 1
    /\ trees = {}
    /\ core_queue = EmptyQueue
    /\ pc = "idle"
    /\ new_coords = None
    /\ transcribed = 1
    /\ trimmer = NewTrimmer(1)
    /\ calls = 0
    /\ last_call = NoCall
    /\ trees_is_none = FALSE

\* position_interp = FeatureVsCoords(...) and the elif chain of modify4new_slice
Classify ==
    /\ pc = "idle"
    /\ hist' = [hist EXCEPT
                    !.branch = Branch(features[1], hist.slice_coordinates, is_plus_strand),
                    !.predicates = TruePredicates(features[1], hist.slice_coordinates,
                                                  is_plus_strand)]
    /\ pc' = "classified"
    /\ UNCHANGED <<features, pieces, core_queue, trees, transcripts, new_coords,
                   is_plus_strand, transcribed, trimmer, calls, last_call, trees_is_none>>

ClassifyNext == Classify

SpecClassify == ClassifyInit /\ [][ClassifyNext]_vars

\* C31: whatever the start and end of the feature and of the slice, on both
\* strands, at least one of the six predicates of FeatureVsCoords holds and the
\* elif chain of modify4new_slice takes one of its six branches, never the
\* final else
C31_AlwaysClassifiable ==
    pc = "classified" =>
        /\ hist.predicates # {}
        /\ hist.branch \in {"detached", "upstream", "overlaps_upstream", "contained",
                            "overlaps_downstream", "downstream"}

\* an inverted feature was classified against an inverted slice on the minus
\* strand
C31_Witness ==
    /\ pc = "classified"
    /\ ~is_plus_strand
    /\ ~features[1].is_plus_strand
    /\ hist.slice_coordinates.seqid = 1
    /\ hist.slice_coordinates.start > hist.slice_coordinates.end
    /\ feature_py_start(features[1], FALSE) > feature_py_end(features[1], FALSE)
    /\ hist.branch # "detached"

----------------------------------------------------------------------------
(* Termination of modify4new_slice: the statements of one call, each taken
   when it is its turn *)

\* the plus-strand super-loci of one transcript with MaxInitFeatures features
LiveLoci == { GridLocus(l, TRUE) : l \in { x \in Layouts : Len(x) = MaxInitFeatures } }

\* one call on a slice of the grid, with the caller's index
LiveInit ==
    /\ BorderInit
    /\ \E locus \in LiveLoci : features = locus.features /\ pieces = locus.pieces
    /\ Coord(new_coords) \in GridSlices
    /\ ~trees_is_none

SpecBorderLive == LiveInit /\ [][BorderNext]_vars /\ WF_vars(BorderNext)

\* the call has ended
BorderEnded == pc \in {"returned", "except", "failed"}

\* the groups handled so far are the first groups of the walk, one class each
VisitedInOrder ==
    pc # "idle" =>
        /\ trimmer.walk = transition_5p_to_3p(hist.pre_features, hist.pre_pieces,
                                              trimmer.transcript)
        /\ Len(hist.classes) = trimmer.i - 1
        /\ trimmer.i <= Len(trimmer.walk) + 1
        /\ \A j \in DOMAIN hist.classes :
                hist.classes[j] \in {"detached", "upstream", "overlaps_upstream",
                                     "contained", "overlaps_downstream", "downstream"}

\* C32: every modify4new_slice call ends; the walk is the list made when the
\* call began and is not changed; each step handles the next group of it and
\* the cursor moves on by one when the group is done; a call that returns or
\* raises NoFeaturesInSliceError has handled every group of the walk; and a
\* call ends by returning, by NoFeaturesInSliceError or by AssertionError
C32_BoundedWalk ==
    /\ <>BorderEnded
    /\ []VisitedInOrder
    /\ [][ /\ trimmer'.i \in {trimmer.i, trimmer.i + 1}
           /\ (pc # "idle" => trimmer'.walk = trimmer.walk)
         ]_vars
    /\ [](pc \in {"returned", "except"} => trimmer.i = Len(trimmer.walk) + 1)
    /\ [](BorderEnded =>
            hist.outcome \in {"returned", "NoFeaturesInSliceError", "AssertionError"})
    /\ [](pc = "returned" <=> hist.outcome = "returned")
    /\ [](pc = "except" <=> hist.outcome = "NoFeaturesInSliceError")

\* a call has returned after a walk of two groups, the first of them split at
\* the border of the slice
C32_Witness ==
    /\ pc = "returned"
    /\ Len(trimmer.walk) = 2
    /\ hist.classes = <<"overlaps_downstream", "downstream">>
    /\ trimmer.i = 3

----------------------------------------------------------------------------
(* The double check of modify4slice and features that do not touch the slice *)

\* the features of the skipped transcript whose strand-adjusted interval has a
\* position in the slice, on the seqid of the slice
Intersecting ==
    { f \in SkippedTranscript :
        /\ Coord(features[f].coordinate).seqid = Slice.seqid
        /\ PySet(features[f]) \cap SlicePositions(Slice) # {} }

\* C33 as stated: the double check raises AssertionError only if some feature
\* of the skipped transcript intersects the slice [start, end) on its seqid.
C33_AsClaimed ==
    pc = "assert_failed" => Intersecting # {}

----------------------------------------------------------------------------
(* Downstream groups away from the border piece *)

\* C34: a step for a group classified downstream, taken while no border piece
\* is known or for a group of another piece than the border piece, changes no
\* feature, piece, queue record or index entry, makes no new piece and leaves
\* seen_one_overlap, piece_at_border and the memoized new piece as they were
C34_DownstreamElsewhereIsNoOp ==
    [][ (/\ StepOf("downstream")
         /\ (trimmer.piece_at_border = None \/ NextPiece # trimmer.piece_at_border)) =>
            /\ PureNoOp
            /\ Len(pieces') = Len(pieces)
            /\ trimmer'.seen_one_overlap = trimmer.seen_one_overlap
            /\ trimmer'._downstream_piece = trimmer._downstream_piece
      ]_vars

\* a downstream group on another piece than the border piece has just been
\* stepped over, after a split at the border in the same call
C34_Witness ==
    /\ pc = "walk"
    /\ trimmer.i > 2
    /\ hist.classes[trimmer.i - 1] = "downstream"
    /\ trimmer.piece_at_border # None
    /\ trimmer.walk[trimmer.i - 1].piece # trimmer.piece_at_border
    /\ trimmer.seen_one_overlap
    /\ trimmer._downstream_piece = Len(pieces)
    /\ Len(pieces) = Len(hist.pre_pieces) + 1

----------------------------------------------------------------------------
(* The training callback ConfusionMatrixTrain of HelixerModel.py.  The
   callback object is held in trimmer, the Keras model and what the run has
   seen in hist, the epoch index in calls.  F1 values are counted in tenths. *)

MaxEpochs == 7
MaxPatience == 3
F1Step == 2

Tenths == 10
NaN == -1

\* what ConfusionMatrix.calculate_cm can return: a genic F1 in [0, 1], or nan
CmValues == { x \in 0..Tenths : x % F1Step = 0 } \cup {NaN}

\* HelixerModel.run_confusion_matrix: nan becomes 0.0
run_confusion_matrix(cm) == IF cm = NaN THEN 0 ELSE cm

\* ConfusionMatrixTrain.__init__
ConfusionMatrixTrain(patience) ==
    [patience |-> patience, best_val_genic_f1 |-> 0, epochs_without_improvement |-> 0]

\* faulty variant: patience has to be exceeded
on_epoch_end_exceeds(self, epoch, cm) ==
    LET val_genic_f1 == run_confusion_matrix(cm)
        improved == val_genic_f1 > self.best_val_genic_f1
        count == IF improved THEN 0 ELSE self.epochs_without_improvement + 1
    IN [self |-> [self EXCEPT
                    !.best_val_genic_f1 = IF improved THEN val_genic_f1 ELSE @,
                    !.epochs_without_improvement = count],
        val_genic_f1 |-> val_genic_f1,
        save |-> improved,
        stop |-> \/ (~improved /\ count > self.patience)
                 \/ (epoch = 5 /\ val_genic_f1 * 10 < 6 * Tenths)]

\* faulty variant: a tie with the best F1 counts as an improvement
on_epoch_end_tie(self, epoch, cm) ==
    LET val_genic_f1 == run_confusion_matrix(cm)
        improved == val_genic_f1 >= self.best_val_genic_f1
        count == IF improved THEN 0 ELSE self.epochs_without_improvement + 1
    IN [self |-> [self EXCEPT
                    !.best_val_genic_f1 = IF improved THEN val_genic_f1 ELSE @,
                    !.epochs_without_improvement = count],
        val_genic_f1 |-> val_genic_f1,
        save |-> improved,
        stop |-> \/ (~improved /\ count >= self.patience)
                 \/ (epoch = 5 /\ val_genic_f1 * 10 < 6 * Tenths)]

\* ConfusionMatrixTrain.on_epoch_end: the callback after the call, the F1 it
\* worked with, whether it saved the model and whether it set stop_training
on_epoch_end(self, epoch, cm) ==
    LET val_genic_f1 == run_confusion_matrix(cm)
        improved == val_genic_f1 > self.best_val_genic_f1
        count == IF improved THEN 0 ELSE self.epochs_without_improvement + 1
    IN [self |-> [self EXCEPT
                    !.best_val_genic_f1 = IF improved THEN val_genic_f1 ELSE @,
                    !.epochs_without_improvement = count],
        val_genic_f1 |-> val_genic_f1,
        save |-> improved,
        stop |-> \/ (~improved /\ count >= self.patience)
                 \/ (epoch = 5 /\ val_genic_f1 * 10 < 6 * Tenths)]

TrainInit ==
    /\ \E patience \in 0..MaxPatience : trimmer = ConfusionMatrixTrain(patience)
    /\ hist = [stop_training |-> FALSE, cm |-> <<>>, f1 |-> <<>>, saved |-> <<>>,
               stops |-> <<>>]
    /\ calls = 0
    /\ pc = "constructed"
    /\ features = <<>>
    /\ pieces = <<>>
    /\ core_queue = EmptyQueue
    /\ trees = {}
    /\ transcripts = 0
    /\ new_coords = None
    /\ is_plus_strand = TRUE
    /\ transcribed = 1
    /\ last_call = NoCall
    /\ trees_is_none = FALSE

TrainRest ==
    <<features, pieces, core_queue, trees, transcripts, new_coords, is_plus_strand,
      transcribed, last_call, trees_is_none>>

\* model.fit begins: Keras clears stop_training and starts at epoch 0
Fit ==
    /\ pc = "constructed"
    /\ hist' = [hist EXCEPT !.stop_training = FALSE]
    /\ pc' = "training"
    /\ UNCHANGED <<trimmer, calls>>
    /\ UNCHANGED TrainRest

\* the end of one epoch: on_epoch_end with the epoch index and the model
OnEpochEnd ==
    /\ pc = "training"
    /\ ~hist.stop_training
    /\ calls < MaxEpochs
    /\ \E cm \in CmValues :
        LET r == on_epoch_end(trimmer, calls, cm)
        IN /\ trimmer' = r.self
           /\ hist' = [hist EXCEPT
                          !.stop_training = @ \/ r.stop,
                          !.cm = Append(@, cm),
                          !.f1 = Append(@, r.val_genic_f1),
                          !.saved = IF r.save THEN Append(@, calls) ELSE @,
                          !.stops = Append(@, r.stop)]
    /\ calls' = calls + 1
    /\ UNCHANGED pc
    /\ UNCHANGED TrainRest

\* the training loop is left: stop_training is set or the epochs are used up
OnTrainEnd ==
    /\ pc = "training"
    /\ hist.stop_training \/ calls = MaxEpochs
    /\ pc' = "trained"
    /\ UNCHANGED <<trimmer, hist, calls>>
    /\ UNCHANGED TrainRest

TrainNext == Fit \/ OnEpochEnd \/ OnTrainEnd

SpecTrain == TrainInit /\ [][TrainNext]_vars

\* the best F1 after the first k epochs, from what the run has seen
BestAfter(k) ==
    CHOOSE b \in {0} \cup { hist.f1[j] : j \in 1..k } :
        \A x \in {0} \cup { hist.f1[j] : j \in 1..k } : x <= b

\* epoch number j (the j-th call) did not strictly exceed the best before it
NonImproving(j) == hist.f1[j] <= BestAfter(j - 1)

\* the number of most recent consecutive non-improving epochs after k epochs
TrailingAfter(k) ==
    CHOOSE n \in 0..k :
        /\ \A j \in (k - n + 1)..k : NonImproving(j)
        /\ n = k \/ ~NonImproving(k - n)

\* C35: epochs_without_improvement is the number of most recent consecutive
\* epochs whose F1 did not strictly exceed the best F1 before them, and a call
\* of on_epoch_end sets stop_training exactly when the epoch did not improve
\* and that number has reached patience, or the epoch index is 5 and the F1 is
\* below 0.6
C35_CounterAndStop ==
    /\ trimmer.epochs_without_improvement = TrailingAfter(Len(hist.f1))
    /\ Len(hist.stops) = Len(hist.f1)
    /\ \A j \in DOMAIN hist.stops :
        hist.stops[j] <=>
            \/ NonImproving(j) /\ TrailingAfter(j) >= trimmer.patience
            \/ (j - 1 = 5 /\ hist.f1[j] * 10 < 6 * Tenths)
    /\ hist.stop_training <=> \E j \in DOMAIN hist.stops : hist.stops[j]

\* the run was stopped by patience at an epoch other than epoch 5, after an
\* improving epoch had reset the counter
C35_Witness ==
    /\ pc = "trained"
    /\ hist.stop_training
    /\ trimmer.patience = 2
    /\ trimmer.epochs_without_improvement = 2
    /\ calls = 4
    /\ hist.saved = <<0, 1>>

\* the epochs whose F1 strictly exceeded the best before them, in order
ImprovingEpochs(k) ==
    LET F[n \in 0..k] ==
            IF n = 0 THEN <<>>
            ELSE IF NonImproving(n) THEN F[n - 1] ELSE Append(F[n - 1], n - 1)
    IN F[k]

\* C36: best_val_genic_f1 never decreases and is the maximum of 0.0 and every
\* F1 that run_confusion_matrix has returned so far, and the model has been
\* saved at exactly the epochs whose F1 strictly exceeded the best before them
C36_BestAndSaves ==
    /\ [](trimmer.best_val_genic_f1 = BestAfter(Len(hist.f1)))
    /\ [](hist.saved = ImprovingEpochs(Len(hist.f1)))
    /\ [](\A j \in DOMAIN hist.f1 : hist.f1[j] = run_confusion_matrix(hist.cm[j]))
    /\ [][trimmer'.best_val_genic_f1 >= trimmer.best_val_genic_f1]_vars

\* after an improvement, a tie with the best, a nan and a worse value the
\* model has been saved once, at the first epoch
C36_Witness ==
    /\ Len(hist.cm) = 4
    /\ hist.cm[2] = hist.cm[1]
    /\ hist.cm[3] = NaN
    /\ hist.cm[4] < hist.cm[1]
    /\ hist.cm[4] > 0
    /\ hist.saved = <<0>>
    /\ trimmer.best_val_genic_f1 = hist.cm[1]

====
